---------------------------- MODULE Spec2Model ----------------------------
(***************************************************************************)
(* A model of idaes/core/util/dyn_utils.py: the index algebra             *)
(* (is_explicitly_indexed_by, get_index_set_except, _complete_index,       *)
(* get_location_of_coordinate_set), the hierarchy walk (path_from_block,   *)
(* is_implicitly_indexed_by, get_implicit_index_of_set), the lookups       *)
(* (find_comp_in_block, find_comp_in_block_at_time), the bulk copies       *)
(* (copy_non_time_indexed_values, copy_values_at_time) and the flag        *)
(* operations (deactivate_model_at, fix_vars_unindexed_by).                *)
(*                                                                         *)
(* Python values are modelled as follows.  A Pyomo set is an object: it is *)
(* named by a string and compared by that name only (identity).  An index  *)
(* is a flat sequence of integers: the scalar 3 and the tuple (3,) are     *)
(* both <<3>>, None is <<>>.  Where Python builds a tuple whose items are  *)
(* themselves tuples, the nested item is written between the markers -1    *)
(* and -2, so ((1,2),3) is <<-1,1,2,-2,3>> and differs from (1,2,3).       *)
(* A raised exception is the name of its type; "none" is a normal return.  *)
(***************************************************************************)
EXTENDS Integers, Sequences, FiniteSets, TLC

VARIABLES
    comp,       \* index algebra: the component's indexing sets, in order
    sets,       \* index algebra: the sets passed to get_index_set_except
    info,       \* index algebra: what get_index_set_except returned
    getter,     \* index algebra: the index_getter call made and its result
    locate,     \* index algebra: the get_location_of_coordinate_set call made
    explicit,   \* index algebra: what is_explicitly_indexed_by returned
    implicit,   \* hierarchy walk: the is_implicitly_indexed_by call made
    ask,        \* queries: the last hierarchy query, its arguments and its result
    tgt,        \* copies: the target flowsheet fs_tgt
    src,        \* copies: the source flowsheet fs_src
    call,       \* copies: the last operation called, with its arguments
    pre,        \* copies: fs_tgt and fs_src as they were when the call started
    out         \* copies: how the last call ended (exception, warnings, result)

vars == <<comp, sets, info, getter, locate, explicit, implicit, ask, tgt, src, call,
          pre, out>>

idxVars == <<comp, sets, info, getter, locate, explicit>>
treeVars == <<tgt, src, call, pre, out, implicit, ask>>

-----------------------------------------------------------------------------
(* Bounds of the model. *)

\* number of points of the time set
NumPoints == 2
\* largest number of indexing sets of a component in the index algebra
MaxFactors == 3
\* largest number of bulk copies called one after the other on a flowsheet
MaxCalls == 1
\* the calls of deactivate_model_at and fix_vars_unindexed_by in one behaviour
MaxFlagCalls == 2

-----------------------------------------------------------------------------
(* Sequences. *)

Min(a, b) == IF a < b THEN a ELSE b

\* Python's s[0:i] and s[i:], for i >= 0
Take(s, i) == SubSeq(s, 1, Min(i, Len(s)))
Drop(s, i) == SubSeq(s, Min(i, Len(s)) + 1, Len(s))

RECURSIVE Flatten(_)
Flatten(ss) == IF Len(ss) = 0 THEN <<>> ELSE Head(ss) \o Flatten(Tail(ss))

RECURSIVE SumSeq(_)
SumSeq(s) == IF Len(s) = 0 THEN 0 ELSE Head(s) + SumSeq(Tail(s))

Range(s) == {s[i] : i \in 1..Len(s)}

\* how many items of s equal x
Count(s, x) == Cardinality({i \in 1..Len(s) : s[i] = x})

\* the sequences of length 0..n over S
RECURSIVE SeqsUpTo(_, _)
SeqsUpTo(S, n) ==
    IF n = 0 THEN {<<>>}
    ELSE LET shorter == SeqsUpTo(S, n - 1)
         IN  shorter \cup {Append(s, x) : s \in {t \in shorter : Len(t) = n - 1}, x \in S}

-----------------------------------------------------------------------------
(* Pyomo sets.  "time" is the ContinuousSet of the flowsheet; "alias" holds   *)
(* the same elements as "time" but is another object; "pairs" is a set of     *)
(* dimension 2, whose coordinates are numbers that "time" holds as well.      *)

SetIds == {"time", "space", "pairs", "alias"}

TimePoints == [i \in 1..NumPoints |-> <<i - 1>>]

\* s.dimen
Dimen(s) == IF s = "pairs" THEN 2 ELSE 1

\* the elements of s, in the set's order, each a flat index
Elems(s) ==
    CASE s = "time"  -> TimePoints
      [] s = "alias" -> TimePoints
      [] s = "space" -> << <<10>>, <<11>> >>
      [] s = "pairs" -> << <<0, 0>>, <<0, 1>> >>

\* the elements of the product of the sets of a sequence, in order, flattened
RECURSIVE ProductSeq(_)
ProductSeq(fs) ==
    IF Len(fs) = 0 THEN << <<>> >>
    ELSE LET rest == ProductSeq(Tail(fs))
             hd   == Elems(Head(fs))
         IN  Flatten([i \in 1..Len(hd) |-> [j \in 1..Len(rest) |-> hd[i] \o rest[j]]])

\* comp.is_indexed(), comp.dim(), hasattr(comp.index_set(), 'set_tuple')
is_indexed(c) == Len(c) > 0
dim(c) == SumSeq([i \in 1..Len(c) |-> Dimen(c[i])])
has_set_tuple(c) == Len(c) >= 2

\* the keys of comp: every index of comp's index_set
index_set(c) == Range(ProductSeq(c))


-----------------------------------------------------------------------------
(* Results of the modelled functions. *)

Ret(v) == [raised |-> "none", value |-> v]
Raise(e) == [raised |-> e, value |-> FALSE]

\* the items of a finite set of integers, ascending: sorted(S)
RECURSIVE Sorted(_)
Sorted(S) ==
    IF S = {} THEN <<>>
    ELSE LET m == CHOOSE x \in S : \A y \in S : x <= y
         IN  <<m>> \o Sorted(S \ {m})

-----------------------------------------------------------------------------
(* is_explicitly_indexed_by(comp, *sets).  c is comp's indexing sets: a      *)
(* component indexed by one set has that set as its index_set, one indexed   *)
(* by several has a set product, which is none of its factors.               *)

\* only the test of lines 52-55: comp's index set is the one set passed
indexed_by_alone(c, ss) ==
    IF ~is_indexed(c) THEN Ret(FALSE)
    ELSE IF Len(ss) = 0 THEN Raise("ValueError")
    ELSE Ret(Len(ss) = 1 /\ Len(c) = 1 /\ c[1] = ss[1])

\* the tests of lines 55 and 68 made on the elements of the sets
indexed_by_value(c, ss) ==
    LET total_s_dim == SumSeq([i \in 1..Len(ss) |-> Dimen(ss[i])])
        c_dim == dim(c)
    IN  IF ~is_indexed(c) THEN Ret(FALSE)
        ELSE IF Len(ss) = 0 THEN Raise("ValueError")
        ELSE IF c_dim < total_s_dim THEN Ret(FALSE)
        ELSE IF Len(ss) = 1 /\ Dimen(ss[1]) = c_dim
             THEN Ret(Len(c) = 1 /\ Elems(c[1]) = Elems(ss[1]))
        ELSE IF ~has_set_tuple(c) THEN Ret(FALSE)
        ELSE Ret(\A i \in 1..Len(ss) : \E k \in 1..Len(c) :
                    Elems(c[k]) = Elems(ss[i]))

is_explicitly_indexed_by(c, ss) ==
    LET total_s_dim == SumSeq([i \in 1..Len(ss) |-> Dimen(ss[i])])
        c_dim == dim(c)
    IN  IF ~is_indexed(c) THEN Ret(FALSE)
        ELSE IF Len(ss) = 0 THEN Raise("ValueError")
        ELSE IF c_dim < total_s_dim THEN Ret(FALSE)
        ELSE IF Len(ss) = 1 /\ Dimen(ss[1]) = c_dim
             THEN Ret(Len(c) = 1 /\ c[1] = ss[1])
        ELSE IF ~has_set_tuple(c) THEN Ret(FALSE)
        ELSE Ret(\A i \in 1..Len(ss) : ss[i] \in Range(c))

\* the call with one set, as every caller in the module makes it
explicitly_indexed_by(c, s) == is_explicitly_indexed_by(c, <<s>>).value

-----------------------------------------------------------------------------
(* get_index_set_except(comp, *sets) and its index_getter.                   *)

NoInfo == [called |-> FALSE, raised |-> "none"]

\* location: position in comp's set_tuple -> position in sets (both from 0)
location_of(c, ss) ==
    IF has_set_tuple(c)
    THEN [ind_loc \in {k \in 0..(Len(c) - 1) : c[k + 1] \in Range(ss)} |->
            (CHOOSE s_loc \in 0..(Len(ss) - 1) :
                /\ ss[s_loc + 1] = c[ind_loc + 1]
                /\ \A j \in 0..(s_loc - 1) : ss[j + 1] # c[ind_loc + 1])]
    ELSE (0 :> 0)

\* every factor is kept, the sets passed included
every_ind_set(c, ss) == c

other_ind_sets(c, ss) ==
    LET NotGiven(x) == x \notin Range(ss)
    IN  IF has_set_tuple(c) THEN SelectSeq(c, NotGiven) ELSE <<>>

\* get_index_set_except without the count of lines 145-149
get_index_set_uncounted(c, ss) ==
    LET expl == is_explicitly_indexed_by(c, ss)
        total_s_dim == SumSeq([i \in 1..Len(ss) |-> Dimen(ss[i])])
        other == other_ind_sets(c, ss)
    IN  IF expl.raised # "none" THEN [called |-> TRUE, raised |-> expl.raised]
        ELSE IF ~expl.value THEN [called |-> TRUE, raised |-> "ValueError"]
        ELSE IF dim(c) = total_s_dim
             THEN [called |-> TRUE, raised |-> "none", trivial |-> TRUE,
                   location |-> location_of(c, ss), set_except |-> << <<>> >>]
        ELSE IF Len(other) >= 1
             THEN [called |-> TRUE, raised |-> "none", trivial |-> FALSE,
                   location |-> location_of(c, ss), set_except |-> ProductSeq(other)]
        ELSE [called |-> TRUE, raised |-> "ValueError"]

get_index_set_except(c, ss) ==
    LET expl == is_explicitly_indexed_by(c, ss)
        total_s_dim == SumSeq([i \in 1..Len(ss) |-> Dimen(ss[i])])
        other == other_ind_sets(c, ss)
    IN  IF expl.raised # "none" THEN [called |-> TRUE, raised |-> expl.raised]
        ELSE IF ~expl.value THEN [called |-> TRUE, raised |-> "ValueError"]
        ELSE IF has_set_tuple(c) /\ \E i \in 1..Len(ss) : Count(c, ss[i]) # 1
             THEN [called |-> TRUE, raised |-> "ValueError"]
        ELSE IF dim(c) = total_s_dim
             THEN [called |-> TRUE, raised |-> "none", trivial |-> TRUE,
                   location |-> location_of(c, ss), set_except |-> << <<>> >>]
        ELSE IF Len(other) >= 1
             THEN [called |-> TRUE, raised |-> "none", trivial |-> FALSE,
                   location |-> location_of(c, ss), set_except |-> ProductSeq(other)]
        ELSE [called |-> TRUE, raised |-> "ValueError"]

\* an item of a tuple Python builds from values: a scalar, or a nested tuple
Item(v) == IF Len(v) = 1 THEN v ELSE <<-1>> \o v \o <<-2>>

RECURSIVE insert_values(_, _, _, _)
insert_values(keys, loc, index, newvals) ==
    IF Len(keys) = 0 THEN index
    ELSE LET i == Head(keys)
         IN  insert_values(Tail(keys), loc,
                           Take(index, i) \o newvals[loc[i] + 1] \o Drop(index, i),
                           newvals)

\* _complete_index(loc, index, *newvals)
_complete_index(loc, index, newvals) ==
    LET keys == Sorted(DOMAIN loc)
    IN  IF Len(keys) # Len(newvals) THEN Raise("ValueError")
        ELSE IF \E i \in DOMAIN loc : loc[i] >= Len(newvals) THEN Raise("IndexError")
        ELSE Ret(insert_values(keys, loc, index, newvals))

\* info['index_getter'](incomplete_index, *newvals)
index_getter(inf, incomplete_index, newvals) ==
    IF inf.trivial
    THEN IF Len(newvals) = 0 THEN Raise("IndexError")
         ELSE IF Len(newvals) <= 1 THEN Ret(newvals[1])
         ELSE IF \E i \in DOMAIN inf.location : inf.location[i] >= Len(newvals)
              THEN Raise("IndexError")
         ELSE LET keys == Sorted(DOMAIN inf.location)
              IN  Ret(Flatten([k \in 1..Len(keys) |->
                                 Item(newvals[inf.location[keys[k]] + 1])]))
    ELSE _complete_index(inf.location, incomplete_index, newvals)

-----------------------------------------------------------------------------
(* get_location_of_coordinate_set(setprod, subset).  The result's value is   *)
(* the location, or -1 for None.                                             *)

\* the loop counting one for every factor, whatever its dimension
RECURSIVE locate_by_position(_, _, _, _, _)
locate_by_position(subsets, subset, i, found, loc) ==
    IF Len(subsets) = 0 THEN Ret(loc)
    ELSE IF Head(subsets) = subset
         THEN IF found THEN Raise("ValueError")
              ELSE locate_by_position(Tail(subsets), subset, i + 1, TRUE, i)
         ELSE locate_by_position(Tail(subsets), subset, i + 1, found, loc)

RECURSIVE locate_loop(_, _, _, _, _)
locate_loop(subsets, subset, i, found, loc) ==
    IF Len(subsets) = 0 THEN Ret(loc)
    ELSE IF Head(subsets) = subset
         THEN IF found THEN Raise("ValueError")
              ELSE locate_loop(Tail(subsets), subset, i + 1, TRUE, i)
         ELSE locate_loop(Tail(subsets), subset, i + Dimen(Head(subsets)), found, loc)

get_location_of_coordinate_set(setprod, subset) ==
    IF Dimen(subset) # 1 THEN Raise("ValueError")
    ELSE locate_loop(setprod, subset, 0, FALSE, -1)

-----------------------------------------------------------------------------
(* The index algebra as a state machine: for a component and the sets to    *)
(* omit, is_explicitly_indexed_by is called first, as the callers of        *)
(* get_index_set_except do; then get_index_set_except is called once, its   *)
(* index_getter once on an index of set_except and one value per set, and   *)
(* get_location_of_coordinate_set once on the component and a set.          *)

NoGetter == [called |-> FALSE]
NoLocate == [called |-> FALSE]
NoExplicit == [called |-> FALSE]

\* the components: every sequence of at most MaxFactors indexing sets
Comps == SeqsUpTo(SetIds, MaxFactors)
\* the sets passed in one call: none, one or two
SetArgs == {ss \in SeqsUpTo(SetIds, MaxFactors) : Len(ss) <= 2}

\* one value for each set of ss, in the order of ss
NewVals(ss) ==
    {nv \in [1..Len(ss) -> UNION {Range(Elems(s)) : s \in SetIds}] :
        \A i \in 1..Len(ss) : nv[i] \in Range(Elems(ss[i]))}

IndexInit ==
    /\ comp \in Comps
    /\ sets \in SetArgs
    /\ info = NoInfo
    /\ getter = NoGetter
    /\ locate = NoLocate
    /\ explicit = NoExplicit

IndexIdle ==
    /\ comp = <<>>
    /\ sets = <<>>
    /\ info = NoInfo
    /\ getter = NoGetter
    /\ locate = NoLocate
    /\ explicit = NoExplicit

GetIndexSetExcept ==
    /\ explicit.called
    /\ ~info.called
    /\ info' = get_index_set_except(comp, sets)
    /\ UNCHANGED <<comp, sets, getter, locate, explicit>>
    /\ UNCHANGED treeVars

IndexGetter ==
    /\ info.called
    /\ info.raised = "none"
    /\ ~getter.called
    /\ \E p \in Range(info.set_except), nv \in NewVals(sets) :
        getter' = [called |-> TRUE, incomplete_index |-> p, newvals |-> nv,
                   res |-> index_getter(info, p, nv)]
    /\ UNCHANGED <<comp, sets, info, locate, explicit>>
    /\ UNCHANGED treeVars

\* the test comes first, as in the callers of get_index_set_except
IsExplicitlyIndexedBy ==
    /\ ~explicit.called
    /\ explicit' = [called |-> TRUE, res |-> is_explicitly_indexed_by(comp, sets)]
    /\ UNCHANGED <<comp, sets, info, getter, locate>>
    /\ UNCHANGED treeVars

GetLocation ==
    /\ explicit.called
    /\ is_indexed(comp)
    /\ ~locate.called
    /\ \E s \in Range(sets) :
        locate' = [called |-> TRUE, subset |-> s,
                   res |-> get_location_of_coordinate_set(comp, s)]
    /\ UNCHANGED <<comp, sets, info, getter, explicit>>
    /\ UNCHANGED treeVars

-----------------------------------------------------------------------------
(* Flowsheets.  A block data object is named by its address: the sequence   *)
(* of <<local_name, index>> steps that leads to it from the flowsheet, <<>> *)
(* for the flowsheet itself.  A component data object (a VarData) is named  *)
(* by the address of its parent block followed by its own step.  A          *)
(* component (an indexed Var or Block) is the pair of its parent block and  *)
(* its local name.                                                          *)
(*                                                                          *)
(* The target flowsheet declares, in this order:                            *)
(*   p, q[space], x[time], y[space,time], z[pairs,time],                    *)
(*   b[space] holding bp and bx[time],                                      *)
(*   c[time] holding cv and the block cs, which holds w[space],             *)
(*   d[space,time] holding dv,                                              *)
(* and the Constraints e[space,time] and g[pairs,time], and ck[time] in     *)
(* every c[t].                                                              *)

Decls == <<
    [name |-> "p",  ctype |-> "Var",   parent |-> "fs", index |-> <<>>],
    [name |-> "q",  ctype |-> "Var",   parent |-> "fs", index |-> <<"space">>],
    [name |-> "x",  ctype |-> "Var",   parent |-> "fs", index |-> <<"time">>],
    [name |-> "y",  ctype |-> "Var",   parent |-> "fs", index |-> <<"space", "time">>],
    [name |-> "z",  ctype |-> "Var",   parent |-> "fs", index |-> <<"pairs", "time">>],
    [name |-> "b",  ctype |-> "Block", parent |-> "fs", index |-> <<"space">>],
    [name |-> "bp", ctype |-> "Var",   parent |-> "b",  index |-> <<>>],
    [name |-> "bx", ctype |-> "Var",   parent |-> "b",  index |-> <<"time">>],
    [name |-> "c",  ctype |-> "Block", parent |-> "fs", index |-> <<"time">>],
    [name |-> "cv", ctype |-> "Var",   parent |-> "c",  index |-> <<>>],
    [name |-> "cs", ctype |-> "Block", parent |-> "c",  index |-> <<>>],
    [name |-> "w",  ctype |-> "Var",   parent |-> "cs", index |-> <<"space">>],
    [name |-> "d",  ctype |-> "Block", parent |-> "fs", index |-> <<"space", "time">>],
    [name |-> "dv", ctype |-> "Var",   parent |-> "d",  index |-> <<>>],
    [name |-> "e",  ctype |-> "Constraint", parent |-> "fs", index |-> <<"space", "time">>],
    [name |-> "g",  ctype |-> "Constraint", parent |-> "fs", index |-> <<"pairs", "time">>],
    [name |-> "ck", ctype |-> "Constraint", parent |-> "c",  index |-> <<"time">>] >>

NamesIn(ds) == {ds[i].name : i \in DOMAIN ds}
Names == NamesIn(Decls)

\* the indexing sets of the component of a name; the flowsheet is not indexed
IndexTableOf(ds) ==
    [n \in NamesIn(ds) |-> ds[CHOOSE i \in DOMAIN ds : ds[i].name = n].index]
IndexTable == IndexTableOf(Decls)
IndexOf(name) == IF name = "fs" THEN <<>> ELSE IndexTable[name]

\* the local names of the components of one type declared in a block, in order
Declared(parent, ctype) ==
    LET Mine(d) == d.parent = parent /\ d.ctype = ctype
        ds == SelectSeq(Decls, Mine)
    IN  [i \in 1..Len(ds) |-> ds[i].name]

\* a block data object's local name, index, and parent block
NameOf(addr) == IF Len(addr) = 0 THEN "fs" ELSE addr[Len(addr)][1]
IndexAt(addr) == IF Len(addr) = 0 THEN <<>> ELSE addr[Len(addr)][2]
parent_block(addr) == SubSeq(addr, 1, Len(addr) - 1)

\* b.block_data_objects(): b and the blocks below it, depth first, b first
RECURSIVE block_data_objects(_)
block_data_objects(addr) ==
    LET subs == Declared(NameOf(addr), "Block")
    IN  <<addr>> \o
        Flatten([i \in 1..Len(subs) |->
            LET ixs == ProductSeq(IndexOf(subs[i]))
            IN  Flatten([j \in 1..Len(ixs) |->
                    block_data_objects(Append(addr, <<subs[i], ixs[j]>>))])])

Root == <<>>
AllBlocks == Range(block_data_objects(Root))

\* the components of one type declared in a block, or in it and below it
DeclaredComponents ==
    [addr \in AllBlocks, ctype \in {"Var", "Block", "Constraint"},
     descend_into \in BOOLEAN |->
        LET blks == IF descend_into THEN block_data_objects(addr) ELSE <<addr>>
        IN  Flatten([i \in 1..Len(blks) |->
                LET names == Declared(NameOf(blks[i]), ctype)
                IN  [j \in 1..Len(names) |-> [blk |-> blks[i], name |-> names[j]]]])]
declared_components(addr, ctype, descend_into) ==
    DeclaredComponents[addr, ctype, descend_into]

\* the indices of the component of a name, in the order of its index set
IndexSeqOf(table) == [n \in DOMAIN table |-> ProductSeq(table[n])]
IndexSeq == IndexSeqOf(IndexTable)

\* the data objects declared for a component, in the order of its index set
declared_data(c) ==
    LET ixs == IndexSeq[c.name]
    IN  [j \in 1..Len(ixs) |-> Append(c.blk, <<c.name, ixs[j]>>)]

\* every VarData declared in a block and below it
DeclaredVarData ==
    [addr \in AllBlocks |->
        LET cs == declared_components(addr, "Var", TRUE)
        IN  Flatten([i \in 1..Len(cs) |-> declared_data(cs[i])])]
declared_var_data(addr) == DeclaredVarData[addr]

AllVars == Range(declared_var_data(Root))
AllCons ==
    UNION {Range(declared_data(c)) :
            c \in Range(declared_components(Root, "Constraint", TRUE))}
AllNodes == AllBlocks \cup AllVars \cup AllCons

-----------------------------------------------------------------------------
(* A flowsheet's state: the objects it holds (nodes), each VarData's value   *)
(* and fixed flag, each block's active flag.                                 *)

\* hasattr(blk, name): blk holds a component of that local name
held_in(indices, tree, blk, name) ==
    /\ name \in DOMAIN indices
    /\ \E i \in Range(indices[name]) : Append(blk, <<name, i>>) \in tree.nodes
has_attr(tree, blk, name) == held_in(IndexSeq, tree, blk, name)

\* fs.find_component(name of c relative to fs): the component, or None (FALSE)
find_component(tree, c) == c.blk \in tree.nodes /\ has_attr(tree, c.blk, c.name)

\* b.component_objects(ctype, descend_into) on a flowsheet: the components
\* of one type that the flowsheet holds
component_objects(tree, addr, ctype, descend_into) ==
    LET Held(c) == find_component(tree, c)
    IN  SelectSeq(declared_components(addr, ctype, descend_into), Held)

\* "for index in comp": the data objects of a component that the flowsheet holds
data_objects(tree, c) ==
    LET Held(a) == a \in tree.nodes
    IN  SelectSeq(declared_data(c), Held)

\* b.component_data_objects(Var): every VarData in b and below
component_data_objects(tree, addr) ==
    LET Held(a) == a \in tree.nodes
    IN  SelectSeq(declared_var_data(addr), Held)

\* path_from_block(comp, blk), include_comp=False; parent_data is comp.parent_block()
RECURSIVE path_climb(_, _, _)
path_climb(parent_data, blk, route) ==
    IF parent_data = blk THEN route
    ELSE LET longer == << <<NameOf(parent_data), IndexAt(parent_data)>> >> \o route
         IN  IF Len(parent_data) = 0 THEN longer
             ELSE path_climb(parent_block(parent_data), blk, longer)

\* the route as met on the way up, the innermost block first
path_bottom_up(parent_data, blk) ==
    LET route == path_climb(parent_data, blk, <<>>)
    IN  [i \in 1..Len(route) |-> route[Len(route) + 1 - i]]

path_from_block(parent_data, blk) == path_climb(parent_data, blk, <<>>)

\* for r in route: local_parent = getattr(local_parent, r[0])[r[1]]
RECURSIVE walk(_, _, _)
walk(tree, local_parent, route) ==
    IF Len(route) = 0 THEN Ret(local_parent)
    ELSE LET r == Head(route)
         IN  IF ~has_attr(tree, local_parent, r[1]) THEN Raise("AttributeError")
             ELSE IF Append(local_parent, r) \notin tree.nodes THEN Raise("KeyError")
             ELSE walk(tree, Append(local_parent, r), Tail(route))

(* is_implicitly_indexed_by(comp, s, stop_at).  parent is comp.parent_block();  *)
(* stop_at is [kind |-> "none"], a block data [kind |-> "data", addr |-> a] or  *)
(* an indexed block [kind |-> "comp", blk |-> parent, name |-> n].  A block     *)
(* that is not indexed is its own data object.                                  *)
\* a test of the stopping point that never finds it
never_stop(stop_at, addr) == FALSE

is_data(stop_at, addr) ==
    \/ stop_at.kind = "data" /\ stop_at.addr = addr
    \/ /\ stop_at.kind = "comp"
       /\ Len(addr) > 0
       /\ ~is_indexed(IndexOf(NameOf(addr)))
       /\ stop_at.blk = parent_block(addr) /\ stop_at.name = NameOf(addr)

is_component_of(stop_at, addr) ==
    \/ /\ stop_at.kind = "comp"
       /\ Len(addr) > 0
       /\ stop_at.blk = parent_block(addr) /\ stop_at.name = NameOf(addr)
    \/ /\ stop_at.kind = "data"
       /\ ~is_indexed(IndexOf(NameOf(addr)))
       /\ stop_at.addr = addr

RECURSIVE implicit_climb(_, _, _)
implicit_climb(parent, s, stop_at) ==
    IF is_data(stop_at, parent) THEN FALSE
    ELSE IF is_component_of(stop_at, parent) THEN FALSE
    ELSE IF explicitly_indexed_by(IndexOf(NameOf(parent)), s) THEN TRUE
    ELSE IF Len(parent) = 0 THEN FALSE
    ELSE implicit_climb(parent_block(parent), s, stop_at)

\* the climb left out: no component is implicitly indexed
never_implicit(c, s, stop_at) == FALSE

is_implicitly_indexed_by(c, s, stop_at) == implicit_climb(c.blk, s, stop_at)

NoStop == [kind |-> "none"]

-----------------------------------------------------------------------------
(* get_index_of_set and get_implicit_index_of_set on a data object of the   *)
(* flowsheet, named by its address.                                         *)

\* get_index_of_set(comp, wrt), lines 444-454
get_index_of_set(a, wrt) ==
    LET parent == IndexOf(NameOf(a))
        index == IndexAt(a)
        loc == get_location_of_coordinate_set(parent, wrt)
    IN  IF ~explicitly_indexed_by(parent, wrt) THEN Raise("ValueError")
        ELSE IF loc.raised # "none" THEN Raise(loc.raised)
        ELSE Ret(<<index[loc.value + 1]>>)

\* the loop of lines 477-486; res is [found, res], res.res the value so far
RECURSIVE implicit_index_climb(_, _, _)
implicit_index_climb(parent_block_, wrt, res) ==
    LET indexed == explicitly_indexed_by(IndexOf(NameOf(parent_block_)), wrt)
        val == get_index_of_set(parent_block_, wrt)
        here == IF ~indexed THEN res
                ELSE IF res.found THEN [found |-> TRUE, res |-> Raise("ValueError")]
                ELSE [found |-> TRUE, res |-> val]
    IN  IF res.res.raised # "none" \/ Len(parent_block_) = 0 THEN res
        ELSE implicit_index_climb(parent_block(parent_block_), wrt, here)

\* get_implicit_index_of_set(comp, wrt); None is returned as <<>>
get_implicit_index_of_set(a, wrt) ==
    LET own == IF explicitly_indexed_by(IndexOf(NameOf(a)), wrt)
               THEN [found |-> TRUE, res |-> get_index_of_set(a, wrt)]
               ELSE [found |-> FALSE, res |-> Ret(<<>>)]
    IN  implicit_index_climb(parent_block(a), wrt, own).res

-----------------------------------------------------------------------------
(* find_comp_in_block and find_comp_in_block_at_time.  A component passed   *)
(* or returned is [blk, name, has_index, index]: a data object, which has   *)
(* an index() (None, <<>>, for a component that is not indexed), or an      *)
(* indexed component, which has none.  NoComp is the None returned.         *)

CompData(a) ==
    [blk |-> parent_block(a), name |-> NameOf(a), has_index |-> TRUE, index |-> IndexAt(a)]
IndexedComp(blk, name) ==
    [blk |-> blk, name |-> name, has_index |-> FALSE, index |-> <<>>]
NoComp == [blk |-> <<>>, name |-> "None", has_index |-> FALSE, index |-> <<>>]

\* a handler that raises again whatever allow_miss is
always_raise(allow_miss, e) == Raise(e)

\* except ...: if allow_miss: return None else: raise
miss(allow_miss, e) == IF allow_miss THEN Ret(NoComp) ELSE Raise(e)

\* lines 613-633, from the local_parent the walk ended in
find_in_parent(tree, local_parent, src_comp, index, allow_miss) ==
    IF ~has_attr(tree, local_parent, src_comp.name) THEN miss(allow_miss, "AttributeError")
    ELSE IF ~src_comp.has_index THEN Ret(IndexedComp(local_parent, src_comp.name))
    ELSE IF Append(local_parent, <<src_comp.name, index>>) \notin tree.nodes
         THEN miss(allow_miss, "KeyError")
    ELSE Ret(CompData(Append(local_parent, <<src_comp.name, index>>)))

\* find_comp_in_block(tgt_block, src_block, src_comp, allow_miss); tree holds tgt_block
find_comp_in_block(tree, tgt_block, src_block, src_comp, allow_miss) ==
    LET local_parent == walk(tree, tgt_block, path_from_block(src_comp.blk, src_block))
    IN  IF local_parent.raised # "none" THEN miss(allow_miss, local_parent.raised)
        ELSE find_in_parent(tree, local_parent.value, src_comp, src_comp.index, allow_miss)

\* a substitution that leaves the index as it is
keep_index(index, c, at) == Ret(index)

\* lines 688-699 and 725-736: index[time_loc] = t0 in the list made of index
replace_time_index(index, c, at) ==
    LET time_loc == get_location_of_coordinate_set(c, "time")
        length == IF index = <<>> THEN 1 ELSE Len(index)
    IN  IF ~explicitly_indexed_by(c, "time") THEN Ret(index)
        ELSE IF time_loc.raised # "none" THEN Raise(time_loc.raised)
        ELSE IF time_loc.value >= length THEN Raise("IndexError")
        ELSE IF index = <<>> THEN Ret(at)
        ELSE Ret([index EXCEPT ![time_loc.value + 1] = at[1]])

\* the loop of lines 671-708; left is whether the function was left in it
Left(r) == [raised |-> r.raised, left |-> TRUE, value |-> <<>>]
RECURSIVE walk_at_time(_, _, _, _, _)
walk_at_time(tree, local_parent, route, at, allow_miss) ==
    IF Len(route) = 0 THEN [raised |-> "none", left |-> FALSE, value |-> local_parent]
    ELSE LET r == Head(route)
             index == replace_time_index(r[2], IndexOf(r[1]), at)
         IN  IF ~has_attr(tree, local_parent, r[1])
             THEN Left(miss(allow_miss, "AttributeError"))
             ELSE IF index.raised # "none" THEN Left(index)
             ELSE IF Append(local_parent, <<r[1], index.value>>) \notin tree.nodes
                  THEN Left(miss(allow_miss, "KeyError"))
             ELSE walk_at_time(tree, Append(local_parent, <<r[1], index.value>>),
                               Tail(route), at, allow_miss)

\* None returned in place of the exception
no_error(e, msg) == [raised |-> "none", value |-> NoComp, msg |-> "none"]

\* an exception with its message
Error(e, msg) == [raised |-> e, value |-> FALSE, msg |-> msg]
NoMessage(r) == [raised |-> r.raised, value |-> r.value, msg |-> "none"]

(* find_comp_in_block_at_time(tgt_block, src_block, src_comp, time, t0,     *)
(* allow_miss).  time is the set "time" of a model; same_model tells        *)
(* whether that model is the model of tgt_block, src_model whether          *)
(* src_block and src_comp are of one model.                                 *)
find_comp_in_block_at_time(tree, tgt_block, src_block, src_comp, same_model, src_model, at, allow_miss) ==
    LET local_parent ==
            walk_at_time(tree, tgt_block, path_from_block(src_comp.blk, src_block),
                         at, allow_miss)
        parent == local_parent.value
        index == replace_time_index(src_comp.index, IndexOf(src_comp.name), at)
    IN  IF at \notin Range(TimePoints)
        THEN Error("KeyError", "t0 must be in the time set")
        ELSE IF ~same_model
        THEN Error("ValueError", "time must belong to the same model as the target block")
        ELSE IF ~src_model
        THEN Error("ValueError",
                   "src_block and src_comp must be components of the same model")
        ELSE IF local_parent.left
        THEN NoMessage(IF local_parent.raised = "none" THEN Ret(NoComp)
                       ELSE Raise(local_parent.raised))
        ELSE IF ~has_attr(tree, parent, src_comp.name)
        THEN NoMessage(miss(allow_miss, "AttributeError"))
        ELSE IF ~src_comp.has_index
        THEN NoMessage(Ret(IndexedComp(parent, src_comp.name)))
        ELSE IF index.raised # "none" THEN NoMessage(index)
        ELSE NoMessage(find_in_parent(tree, parent, src_comp, index.value, allow_miss))

-----------------------------------------------------------------------------
(* The bulk copies.  A call runs on an accumulator: the two flowsheets as   *)
(* they are so far (tree is fs_tgt, source is fs_src), the exception that   *)
(* ended the call ("none" while it runs) and the components a warning was   *)
(* logged for.  When fs_src is fs_tgt (same) the two are one object, and a  *)
(* write to one is a write to the other.                                    *)

Begin(T, S, same) ==
    [tree |-> T, source |-> IF same THEN T ELSE S, same |-> same,
     raised |-> "none", warnings |-> <<>>]

\* a write that adds to the record's value instead of replacing it
add_value(acc, a, v) ==
    LET written == [acc.tree EXCEPT !.value[a] = @ + v]
    IN  [acc EXCEPT !.tree = written,
                    !.source = IF acc.same THEN written ELSE @]

\* var_target.set_value(v): a write to a VarData of fs_tgt
set_value(acc, a, v) ==
    LET written == [acc.tree EXCEPT !.value[a] = v]
    IN  [acc EXCEPT !.tree = written,
                    !.source = IF acc.same THEN written ELSE @]

log_warning(acc, c) == [acc EXCEPT !.warnings = Append(@, c)]
raise(acc, e) == [acc EXCEPT !.raised = e]

\* the gate left out: no record is ever skipped
never_skip(copy_fixed, is_fixed) == FALSE

\* "if not copy_fixed and var_target.fixed: continue"
skip_fixed(copy_fixed, is_fixed) == ~copy_fixed /\ is_fixed

(* copy_values_at_time, the loop over Vars: the body for one index of       *)
(* var_target, lines 890-892 (n == 1) and 900-903 (n >= 2).                 *)
copy_var_at(acc, c, target_index, source_index, copy_fixed) ==
    LET fs_src == acc.source
        var_target == Append(c.blk, <<c.name, target_index>>)
        var_source == Append(c.blk, <<c.name, source_index>>)
    IN  IF var_target \notin acc.tree.nodes THEN raise(acc, "KeyError")
        ELSE IF skip_fixed(copy_fixed, acc.tree.fixed[var_target]) THEN acc
        ELSE IF var_source \notin fs_src.nodes THEN raise(acc, "KeyError")
        ELSE set_value(acc, var_target, fs_src.value[var_source])

\* "for non_time_index in non_time_index_set", lines 897-903
RECURSIVE copy_var_indices(_, _, _, _, _, _, _)
copy_var_indices(ixs, acc, c, inf, t_target, t_source, copy_fixed) ==
    IF Len(ixs) = 0 \/ acc.raised # "none" THEN acc
    ELSE LET source_index == index_getter(inf, Head(ixs), <<t_source>>)
             target_index == index_getter(inf, Head(ixs), <<t_target>>)
             next == IF source_index.raised # "none"
                     THEN raise(acc, source_index.raised)
                     ELSE copy_var_at(acc, c, target_index.value,
                                      source_index.value, copy_fixed)
         IN  copy_var_indices(Tail(ixs), next, c, inf,
                              t_target, t_source, copy_fixed)

\* the body of "for var_target in fs_tgt.component_objects(Var)", lines 867-903
copy_var(acc, c, t_target, t_source, copy_fixed) ==
    LET n == dim(IndexOf(c.name))
        index_info == get_index_set_except(IndexOf(c.name), <<"time">>)
    IN  IF ~explicitly_indexed_by(IndexOf(c.name), "time") THEN acc
        ELSE IF ~find_component(acc.source, c) THEN log_warning(acc, c)
        ELSE IF n = 1
             THEN copy_var_at(acc, c, t_target, t_source, copy_fixed)
        ELSE IF index_info.raised # "none" THEN raise(acc, index_info.raised)
        ELSE copy_var_indices(index_info.set_except, acc, c, index_info,
                              t_target, t_source, copy_fixed)

RECURSIVE copy_vars(_, _, _, _, _)
copy_vars(cs, acc, t_target, t_source, copy_fixed) ==
    IF Len(cs) = 0 \/ acc.raised # "none" THEN acc
    ELSE copy_vars(Tail(cs),
                   copy_var(acc, Head(cs), t_target, t_source, copy_fixed),
                   t_target, t_source, copy_fixed)

(* copy_values_at_time, the loop over Blocks: the body for one VarData of   *)
(* blk_target[target_index], lines 935-945 and 961-971.                     *)
copy_block_var(acc, c, target_index, source_index, var_target, copy_fixed) ==
    LET fs_src == acc.source
        blk_target == Append(c.blk, <<c.name, target_index>>)
        blk_source == Append(c.blk, <<c.name, source_index>>)
        route == path_from_block(parent_block(var_target), blk_target)
        local_parent == IF blk_source \notin fs_src.nodes THEN Raise("KeyError")
                        ELSE walk(fs_src, blk_source, route)
        var_source == Append(local_parent.value,
                             <<NameOf(var_target), IndexAt(var_target)>>)
    IN  IF skip_fixed(copy_fixed, acc.tree.fixed[var_target]) THEN acc
        ELSE IF local_parent.raised # "none" THEN raise(acc, local_parent.raised)
        ELSE IF ~has_attr(fs_src, local_parent.value, NameOf(var_target))
             THEN raise(acc, "AttributeError")
        ELSE IF var_source \notin fs_src.nodes THEN raise(acc, "KeyError")
        ELSE set_value(acc, var_target, fs_src.value[var_source])

RECURSIVE copy_block_vars(_, _, _, _, _, _)
copy_block_vars(vs, acc, c, target_index, source_index, copy_fixed) ==
    IF Len(vs) = 0 \/ acc.raised # "none" THEN acc
    ELSE copy_block_vars(Tail(vs),
                         copy_block_var(acc, c, target_index, source_index,
                                        Head(vs), copy_fixed),
                         c, target_index, source_index, copy_fixed)

\* "for var_target in blk_target[target_index].component_data_objects(Var)"
copy_block_at(acc, c, target_index, source_index, copy_fixed) ==
    LET blk_target == Append(c.blk, <<c.name, target_index>>)
    IN  IF blk_target \notin acc.tree.nodes THEN raise(acc, "KeyError")
        ELSE copy_block_vars(component_data_objects(acc.tree, blk_target), acc, c,
                             target_index, source_index, copy_fixed)

\* "for non_time_index in non_time_index_set", lines 951-971
RECURSIVE copy_block_indices(_, _, _, _, _, _, _)
copy_block_indices(ixs, acc, c, inf, t_target, t_source, copy_fixed) ==
    IF Len(ixs) = 0 \/ acc.raised # "none" THEN acc
    ELSE LET source_index == index_getter(inf, Head(ixs), <<t_source>>)
             target_index == index_getter(inf, Head(ixs), <<t_target>>)
             next == IF source_index.raised # "none"
                     THEN raise(acc, source_index.raised)
                     ELSE copy_block_at(acc, c, target_index.value,
                                        source_index.value, copy_fixed)
         IN  copy_block_indices(Tail(ixs), next, c, inf,
                                t_target, t_source, copy_fixed)

\* the body of "for blk_target in fs_tgt.component_objects(Block)", lines 907-971
copy_block(acc, c, t_target, t_source, copy_fixed) ==
    LET n == dim(IndexOf(c.name))
        index_info == get_index_set_except(IndexOf(c.name), <<"time">>)
    IN  IF ~explicitly_indexed_by(IndexOf(c.name), "time") THEN acc
        ELSE IF ~find_component(acc.source, c) THEN log_warning(acc, c)
        ELSE IF n = 1
             THEN copy_block_at(acc, c, t_target, t_source, copy_fixed)
        ELSE IF index_info.raised # "none" THEN raise(acc, index_info.raised)
        ELSE copy_block_indices(index_info.set_except, acc, c, index_info,
                                t_target, t_source, copy_fixed)

RECURSIVE copy_blocks(_, _, _, _, _)
copy_blocks(cs, acc, t_target, t_source, copy_fixed) ==
    IF Len(cs) = 0 \/ acc.raised # "none" THEN acc
    ELSE copy_blocks(Tail(cs),
                     copy_block(acc, Head(cs), t_target, t_source, copy_fixed),
                     t_target, t_source, copy_fixed)


\* copy_values_at_time(fs_tgt, fs_src, t_target, t_source, copy_fixed)
copy_values_at_time(T, S, same, t_target, t_source, copy_fixed) ==
    copy_blocks(component_objects(T, Root, "Block", TRUE),
                copy_vars(component_objects(T, Root, "Var", TRUE),
                          Begin(T, S, same), t_target, t_source, copy_fixed),
                t_target, t_source, copy_fixed)

-----------------------------------------------------------------------------
(* copy_non_time_indexed_values(fs_tgt, fs_src, copy_fixed).  The function   *)
(* has no outlvl parameter and no variable varname: evaluating either name,  *)
(* as each of its three warning branches does before it logs, raises         *)
(* NameError.                                                                *)

\* "for index in var_tgt", lines 786-789: var_src.value is read on the
\* component itself, an attribute only a Var that is not indexed has
RECURSIVE copy_root_indices(_, _, _, _)
copy_root_indices(vs, acc, c, copy_fixed) ==
    IF Len(vs) = 0 \/ acc.raised # "none" THEN acc
    ELSE LET next ==
                 IF skip_fixed(copy_fixed, acc.tree.fixed[Head(vs)]) THEN acc
                 ELSE IF is_indexed(IndexOf(c.name)) THEN raise(acc, "AttributeError")
                 ELSE set_value(acc, Head(vs),
                                acc.source.value[Append(c.blk, <<c.name, <<>>>>)])
         IN  copy_root_indices(Tail(vs), next, c, copy_fixed)

\* the body of the loop over the flowsheet's own Vars, lines 767-789
copy_root_var(acc, c, copy_fixed) ==
    IF explicitly_indexed_by(IndexOf(c.name), "time") THEN acc
    ELSE IF ~find_component(acc.source, c) THEN raise(acc, "NameError")
    ELSE copy_root_indices(data_objects(acc.tree, c), acc, c, copy_fixed)

RECURSIVE copy_root_vars(_, _, _)
copy_root_vars(cs, acc, copy_fixed) ==
    IF Len(cs) = 0 \/ acc.raised # "none" THEN acc
    ELSE copy_root_vars(Tail(cs), copy_root_var(acc, Head(cs), copy_fixed),
                        copy_fixed)

\* "for index in var_tgt", lines 837-840
RECURSIVE copy_nested_indices(_, _, _, _)
copy_nested_indices(vs, acc, local_parent, copy_fixed) ==
    IF Len(vs) = 0 \/ acc.raised # "none" THEN acc
    ELSE LET var_tgt == Head(vs)
             var_src == Append(local_parent, <<NameOf(var_tgt), IndexAt(var_tgt)>>)
             next == IF skip_fixed(copy_fixed, acc.tree.fixed[var_tgt]) THEN acc
                     ELSE IF var_src \notin acc.source.nodes THEN raise(acc, "KeyError")
                     ELSE set_value(acc, var_tgt, acc.source.value[var_src])
         IN  copy_nested_indices(Tail(vs), next, local_parent, copy_fixed)

\* the body of the loop over the Vars of blk_tgt[b_index], lines 807-840
copy_nested_var(acc, c, copy_fixed) ==
    LET local_parent == walk(acc.source, Root, path_from_block(c.blk, Root))
    IN  IF explicitly_indexed_by(IndexOf(c.name), "time") THEN acc
        ELSE IF local_parent.raised # "none" THEN raise(acc, "NameError")
        ELSE IF ~has_attr(acc.source, local_parent.value, c.name)
             THEN raise(acc, "AttributeError")
        ELSE copy_nested_indices(data_objects(acc.tree, c), acc, local_parent.value,
                                 copy_fixed)

RECURSIVE copy_nested_vars(_, _, _)
copy_nested_vars(cs, acc, copy_fixed) ==
    IF Len(cs) = 0 \/ acc.raised # "none" THEN acc
    ELSE copy_nested_vars(Tail(cs), copy_nested_var(acc, Head(cs), copy_fixed),
                          copy_fixed)

\* "for b_index in blk_tgt", lines 802-840
RECURSIVE copy_block_datas(_, _, _)
copy_block_datas(bs, acc, copy_fixed) ==
    IF Len(bs) = 0 \/ acc.raised # "none" THEN acc
    ELSE copy_block_datas(Tail(bs),
                          copy_nested_vars(component_objects(acc.tree, Head(bs), "Var", FALSE),
                                           acc, copy_fixed),
                          copy_fixed)

\* the body of "for blk_tgt in fs_tgt.component_objects(Block)", lines 794-840
copy_untimed_block(acc, c, copy_fixed) ==
    IF \/ is_implicitly_indexed_by(c, "time", NoStop)
       \/ explicitly_indexed_by(IndexOf(c.name), "time")
    THEN acc
    ELSE copy_block_datas(data_objects(acc.tree, c), acc, copy_fixed)

RECURSIVE copy_untimed_blocks(_, _, _)
copy_untimed_blocks(cs, acc, copy_fixed) ==
    IF Len(cs) = 0 \/ acc.raised # "none" THEN acc
    ELSE copy_untimed_blocks(Tail(cs), copy_untimed_block(acc, Head(cs), copy_fixed),
                             copy_fixed)

copy_non_time_indexed_values(T, S, copy_fixed) ==
    copy_untimed_blocks(component_objects(T, Root, "Block", TRUE),
                        copy_root_vars(component_objects(T, Root, "Var", FALSE),
                                       Begin(T, S, FALSE), copy_fixed),
                        copy_fixed)

-----------------------------------------------------------------------------
(* deactivate_model_at(b, cset, pts) on the flowsheet and its time set.     *)
(* A Block or Constraint that is not indexed is its own data object and     *)
(* carries its active flag; an indexed one is taken as active, each of its  *)
(* data objects carrying a flag of its own.  The Blocks are listed before   *)
(* the Constraints; the order only shows in the order of the lists          *)
(* returned.                                                                *)

comp_active(tree, c) ==
    is_indexed(IndexOf(c.name)) \/ tree.active[Append(c.blk, <<c.name, <<>>>>)]

\* b.component_objects([Block, Constraint], active=True): the active
\* components in the flowsheet and in the active blocks below it
active_components(tree) ==
    LET Reached(c) ==
            /\ find_component(tree, c)
            /\ \A k \in 0..Len(c.blk) : tree.active[SubSeq(c.blk, 1, k)]
            /\ comp_active(tree, c)
    IN  SelectSeq(declared_components(Root, "Block", TRUE)
                      \o declared_components(Root, "Constraint", TRUE), Reached)

\* the try block of lines 310-318 for one index
deactivate_index(acc, c, index, pt) ==
    LET compdata == Append(c.blk, <<c.name, index>>)
    IN  IF compdata \notin acc.tree.nodes
        THEN [acc EXCEPT !.warnings = Append(@, [comp |-> c, index |-> index])]
        ELSE [acc EXCEPT !.tree.active[compdata] = FALSE,
                         !.deactivated[pt] = Append(@, compdata)]

\* "for pt in pts", lines 308-318
RECURSIVE deactivate_points(_, _, _, _, _)
deactivate_points(pts, acc, c, inf, non_cset_index) ==
    IF Len(pts) = 0 \/ acc.raised # "none" THEN acc
    ELSE LET index == index_getter(inf, non_cset_index, <<Head(pts)>>)
             next == IF index.raised # "none"
                     THEN [acc EXCEPT !.raised = index.raised]
                     ELSE deactivate_index(acc, c, index.value, Head(pts))
         IN  deactivate_points(Tail(pts), next, c, inf, non_cset_index)

\* "for non_cset_index in non_cset_set", lines 307-318
RECURSIVE deactivate_indices(_, _, _, _, _)
deactivate_indices(ixs, acc, c, inf, pts) ==
    IF Len(ixs) = 0 \/ acc.raised # "none" THEN acc
    ELSE deactivate_indices(Tail(ixs),
                            deactivate_points(pts, acc, c, inf, Head(ixs)),
                            c, inf, pts)

\* the body of the loop over the components, lines 295-318
deactivate_component(acc, c, pts) ==
    LET info_ == get_index_set_except(IndexOf(c.name), <<"time">>)
    IN  IF ~(/\ explicitly_indexed_by(IndexOf(c.name), "time")
             /\ ~is_implicitly_indexed_by(c, "time", NoStop))
        THEN acc
        ELSE IF info_.raised # "none" THEN [acc EXCEPT !.raised = info_.raised]
        ELSE deactivate_indices(info_.set_except, acc, c, info_, pts)

RECURSIVE deactivate_components(_, _, _)
deactivate_components(cs, acc, pts) ==
    IF Len(cs) = 0 \/ acc.raised # "none" THEN acc
    ELSE deactivate_components(Tail(cs), deactivate_component(acc, Head(cs), pts),
                               pts)

(* arg is pts as passed: [list |-> TRUE, pts |-> the points] for a list,    *)
(* [list |-> FALSE, pts |-> <<pt>>] for a single point.                     *)
deactivate_model_at(T, arg) ==
    LET pts == arg.pts
        start == [tree |-> T, raised |-> "none", warnings |-> <<>>,
                  deactivated |-> [pt \in Range(pts) |-> <<>>]]
    IN  IF \E i \in 1..Len(pts) : pts[i] \notin Range(Elems("time"))
        THEN [start EXCEPT !.raised = "ValueError", !.deactivated = <<>>]
        ELSE deactivate_components(active_components(T), start, pts)

-----------------------------------------------------------------------------
(* fix_vars_unindexed_by(b, time) on the flowsheet and its time set.        *)

\* a Var's value when it has none
None == -1

\* the loop without the test of line 378 for a value
RECURSIVE fix_every(_, _)
fix_every(vs, acc) ==
    IF Len(vs) = 0 THEN acc
    ELSE LET vardata == Head(vs)
             next == IF ~acc.tree.fixed[vardata]
                     THEN [acc EXCEPT !.tree.fixed[vardata] = TRUE,
                                      !.varlist = Append(@, vardata)]
                     ELSE acc
         IN  fix_every(Tail(vs), next)

\* "for index in var", lines 376-386
RECURSIVE fix_indices(_, _)
fix_indices(vs, acc) ==
    IF Len(vs) = 0 THEN acc
    ELSE LET vardata == Head(vs)
             next == IF ~acc.tree.fixed[vardata] /\ acc.tree.value[vardata] # None
                     THEN [acc EXCEPT !.tree.fixed[vardata] = TRUE,
                                      !.varlist = Append(@, vardata)]
                     ELSE acc
         IN  fix_indices(Tail(vs), next)

\* the body of the loop over the Vars, lines 369-386
fix_var(acc, c) ==
    IF /\ ~explicitly_indexed_by(IndexOf(c.name), "time")
       /\ ~is_implicitly_indexed_by(c, "time", NoStop)
    THEN fix_indices(data_objects(acc.tree, c), acc)
    ELSE acc

RECURSIVE fix_vars(_, _)
fix_vars(cs, acc) ==
    IF Len(cs) = 0 THEN acc ELSE fix_vars(Tail(cs), fix_var(acc, Head(cs)))

fix_vars_unindexed_by(T) ==
    fix_vars(component_objects(T, Root, "Var", TRUE), [tree |-> T, varlist |-> <<>>])

-----------------------------------------------------------------------------
(* The flowsheets the copies run on.  The target holds every declared       *)
(* object; the source mirrors it, but for one component or one index that   *)
(* it may lack.  Every VarData starts with a value of its own, so that a    *)
(* copied value tells where it came from.                                   *)

VarSeq == declared_var_data(Root)
Position(a) == CHOOSE i \in 1..Len(VarSeq) : VarSeq[i] = a

\* the first index of a component's index set
FirstIndex(name) == ProductSeq(IndexOf(name))[1]
t0 == TimePoints[1]

\* the VarData at the first index of every set on their way
FirstVars == {a \in AllVars : \A k \in 1..Len(a) : a[k][2] = FirstIndex(a[k][1])}

Flowsheet(base, fixed_vars, inactive, missing) ==
    [nodes  |-> AllNodes \ missing,
     value  |-> [a \in AllVars |-> base + Position(a)],
     fixed  |-> [a \in AllVars |-> a \in fixed_vars],
     active |-> [b \in AllBlocks \cup AllCons |-> b \notin inactive]]

\* what a flowsheet lacks: a component of a block, or one index of it
NoHole == [blk |-> Root, name |-> "none", whole |-> TRUE, idx |-> <<>>]
Component(blk, name) == [blk |-> blk, name |-> name, whole |-> TRUE, idx |-> <<>>]
OneIndex(blk, name, idx) == [blk |-> blk, name |-> name, whole |-> FALSE, idx |-> idx]

Holes ==
    LET c0 == << <<"c", t0>> >>
        b0 == << <<"b", <<10>>>> >>
    IN  { NoHole,
          Component(Root, "p"), Component(Root, "q"), Component(Root, "x"),
          Component(Root, "b"), Component(Root, "c"), Component(Root, "d"),
          Component(b0, "bp"), Component(b0, "bx"),
          Component(c0, "cv"), Component(c0, "cs"),
          OneIndex(Root, "y", <<10>> \o t0), OneIndex(Root, "b", <<11>>),
          OneIndex(Root, "d", <<10>> \o t0),
          OneIndex(Append(c0, <<"cs", <<>>>>), "w", <<10>>) }

Missing(h) ==
    {a \in AllNodes :
        /\ Len(a) > Len(h.blk)
        /\ SubSeq(a, 1, Len(h.blk)) = h.blk
        /\ a[Len(h.blk) + 1][1] = h.name
        /\ (h.whole \/ a[Len(h.blk) + 1][2] = h.idx)}

NoCall == [op |-> "none", n |-> 0]

NoImplicit == [called |-> FALSE]

NoAsk == [called |-> FALSE, op |-> "none"]

NoOutcome == [raised |-> "none", warnings |-> <<>>, returned |-> <<>>]

(* The target holds every declared object, or all but the Var q; either     *)
(* nothing is fixed and every block is active, or the first VarData of      *)
(* every Var is fixed and the block c[t0] is deactivated.                   *)
TreeInit ==
    /\ tgt \in {Flowsheet(100, {}, {}, {}),
                Flowsheet(100, FirstVars, {<< <<"c", t0>> >>}, {}),
                Flowsheet(100, FirstVars, {}, Missing(Component(Root, "q")))}
    /\ src \in {Flowsheet(200, {}, {}, Missing(h)) : h \in Holes}
    /\ call = NoCall
    /\ pre = [tgt |-> tgt, src |-> src]
    /\ out = NoOutcome
    /\ implicit = NoImplicit
    /\ ask = NoAsk

TreeIdle ==
    /\ tgt = Flowsheet(100, {}, {}, {})
    /\ src = Flowsheet(200, {}, {}, {})
    /\ call = NoCall
    /\ pre = [tgt |-> tgt, src |-> src]
    /\ out = NoOutcome
    /\ implicit = NoImplicit
    /\ ask = NoAsk

CopyValuesAtTime ==
    /\ call.n < MaxCalls
    /\ \E t_target \in Range(TimePoints), t_source \in Range(TimePoints),
       copy_fixed \in BOOLEAN, same \in BOOLEAN :
        LET r == copy_values_at_time(tgt, src, same, t_target, t_source, copy_fixed)
        IN  /\ tgt' = r.tree
            /\ src' = IF same THEN src ELSE r.source
            /\ call' = [op |-> "copy_values_at_time", t_target |-> t_target,
                        t_source |-> t_source, copy_fixed |-> copy_fixed,
                        same |-> same, n |-> call.n + 1]
            /\ pre' = [tgt |-> tgt, src |-> src]
            /\ out' = [raised |-> r.raised, warnings |-> r.warnings,
                        returned |-> <<>>]
            /\ UNCHANGED <<idxVars, implicit, ask>>

CopyNonTimeIndexedValues ==
    /\ call.n < MaxCalls
    /\ \E copy_fixed \in BOOLEAN :
        LET r == copy_non_time_indexed_values(tgt, src, copy_fixed)
        IN  /\ tgt' = r.tree
            /\ src' = r.source
            /\ call' = [op |-> "copy_non_time_indexed_values", t_target |-> t0,
                        t_source |-> t0, copy_fixed |-> copy_fixed, same |-> FALSE,
                        n |-> call.n + 1]
            /\ pre' = [tgt |-> tgt, src |-> src]
            /\ out' = [raised |-> r.raised, warnings |-> r.warnings,
                        returned |-> <<>>]
            /\ UNCHANGED <<idxVars, implicit, ask>>

-----------------------------------------------------------------------------
(* The flowsheets whose flags are set.  A flowsheet may hold Vars without a *)
(* value, a sparse Constraint, and blocks deactivated before.               *)

Unset(T, unset) ==
    [T EXCEPT !.value = [a \in AllVars |-> IF a \in unset THEN None ELSE @[a]]]

\* the VarData at the last index of every set on their way
LastIndex(name) == ProductSeq(IndexOf(name))[Len(ProductSeq(IndexOf(name)))]
LastVars == {a \in AllVars : \A k \in 1..Len(a) : a[k][2] = LastIndex(a[k][1])}

FlagInit ==
    /\ tgt \in {Flowsheet(100, {}, {}, {}),
                Flowsheet(100, {}, {<< <<"c", t0>> >>, << <<"b", <<10>>>> >>},
                          Missing(OneIndex(Root, "e", <<10>> \o t0))),
                Unset(Flowsheet(100, FirstVars, {}, Missing(Component(Root, "g"))),
                      {a \in LastVars : Len(a) > 1}),
                Unset(Flowsheet(100, {}, {},
                                Missing(Component(Root, "g"))
                                    \cup Missing(OneIndex(Root, "e", <<10>> \o t0))),
                      FirstVars)}
    /\ src = Flowsheet(200, {}, {}, {})
    /\ call = NoCall
    /\ pre = [tgt |-> tgt, src |-> src]
    /\ out = NoOutcome
    /\ implicit = NoImplicit
    /\ ask = NoAsk

\* pts as passed: one point of time or beside it, or a list of points
PtsArgs ==
    LET beside == <<TimePoints[NumPoints][1] + 1>>
    IN  {[list |-> FALSE, pts |-> <<pt>>] : pt \in Range(TimePoints) \cup {beside}}
            \cup {[list |-> TRUE, pts |-> SelectSeq(TimePoints, LAMBDA pt : pt \in P)] :
                        P \in SUBSET Range(TimePoints)}

FlagCall(op, pts, n) ==
    [op |-> op, t_target |-> t0, t_source |-> t0, copy_fixed |-> FALSE,
     same |-> FALSE, pts |-> pts, n |-> n]

DeactivateModelAt ==
    /\ call.n < MaxFlagCalls
    /\ \E arg \in PtsArgs :
        LET r == deactivate_model_at(tgt, arg)
        IN  /\ tgt' = r.tree
            /\ call' = FlagCall("deactivate_model_at", arg.pts, call.n + 1)
            /\ pre' = [tgt |-> tgt, src |-> src]
            /\ out' = [raised |-> r.raised, warnings |-> r.warnings,
                        returned |-> r.deactivated]
            /\ UNCHANGED <<src, idxVars, implicit, ask>>

FixVarsUnindexedBy ==
    /\ call.n < MaxFlagCalls
    /\ LET r == fix_vars_unindexed_by(tgt)
       IN  /\ tgt' = r.tree
           /\ call' = FlagCall("fix_vars_unindexed_by", <<>>, call.n + 1)
           /\ pre' = [tgt |-> tgt, src |-> src]
           /\ out' = [raised |-> "none", warnings |-> <<>>,
                       returned |-> r.varlist]
           /\ UNCHANGED <<src, idxVars, implicit, ask>>

-----------------------------------------------------------------------------
(* is_implicitly_indexed_by called once on a component of the flowsheet, a  *)
(* set, and a stopping point: none, a block data object or a Block.         *)

AllComponents ==
    Range(declared_components(Root, "Var", TRUE))
        \cup Range(declared_components(Root, "Block", TRUE))
        \cup Range(declared_components(Root, "Constraint", TRUE))

StopAts ==
    {NoStop} \cup {[kind |-> "data", addr |-> a] : a \in AllBlocks}
            \cup {[kind |-> "comp", blk |-> c.blk, name |-> c.name] :
                        c \in Range(declared_components(Root, "Block", TRUE))}

IsImplicitlyIndexedBy ==
    /\ ~implicit.called /\ ~ask.called
    /\ \E c \in AllComponents, s \in SetIds, stop_at \in StopAts :
        implicit' = [called |-> TRUE, comp |-> c, s |-> s, stop_at |-> stop_at,
                     res |-> is_implicitly_indexed_by(c, s, stop_at)]
    /\ UNCHANGED <<idxVars, ask, tgt, src, call, pre, out>>

\* get_implicit_index_of_set called once on a data object and a set
GetImplicitIndexOfSet ==
    /\ ~implicit.called /\ ~ask.called
    /\ \E a \in AllNodes \ {Root}, wrt \in SetIds :
        ask' = [called |-> TRUE, op |-> "get_implicit_index_of_set", comp |-> a,
                wrt |-> wrt, res |-> get_implicit_index_of_set(a, wrt)]
    /\ UNCHANGED <<idxVars, implicit, tgt, src, call, pre, out>>

-----------------------------------------------------------------------------
(* path_from_block, find_comp_in_block and find_comp_in_block_at_time       *)
(* called once.  The component looked for is one of the flowsheet fs_src,   *)
(* or of its steady-state twin, which declares the same components without  *)
(* the set time; the block it is located from is a block around it or a     *)
(* block aside; the target lacks nothing, a component or one index.         *)

PathHoles ==
    { NoHole, Component(Root, "d"), OneIndex(Root, "d", <<10>> \o t0),
      Component(<< <<"c", t0>> >>, "cv"), OneIndex(Root, "y", <<10>> \o t0) }

PathInit ==
    /\ tgt \in {Flowsheet(100, {}, {}, Missing(h)) : h \in PathHoles}
    /\ src = Flowsheet(200, {}, {}, {})
    /\ call = NoCall
    /\ pre = [tgt |-> tgt, src |-> src]
    /\ out = NoOutcome
    /\ implicit = NoImplicit
    /\ ask = NoAsk

SrcComps ==
    {CompData(a) : a \in AllNodes \ {Root}}
        \cup {IndexedComp(c.blk, c.name) : c \in {d \in AllComponents : IndexOf(d.name) # <<>>}}

\* an index of the steady-state twin: the index without its coordinate of time
SteadyIndex(name, index) ==
    LET c == IndexOf(name)
        loc == get_location_of_coordinate_set(c, "time").value
    IN  IF ~explicitly_indexed_by(c, "time") THEN index
        ELSE SubSeq(index, 1, loc) \o SubSeq(index, loc + 2, Len(index))
SteadyBlock(a) == [k \in 1..Len(a) |-> <<a[k][1], SteadyIndex(a[k][1], a[k][2])>>]
Steady(c) ==
    [blk |-> SteadyBlock(c.blk), name |-> c.name,
     has_index |-> c.has_index \/ IndexOf(c.name) = <<"time">>,
     index |-> IF c.has_index THEN SteadyIndex(c.name, c.index) ELSE <<>>]

AsideBlock == << <<"b", LastIndex("b")>> >>
SrcBlocks(c) == {SubSeq(c.blk, 1, k) : k \in 0..Len(c.blk)} \cup {AsideBlock}
TgtBlocks(src_block) == {Root} \cup ({src_block} \cap tgt.nodes)

PathFromBlock ==
    /\ ~ask.called
    /\ \E c \in SrcComps, blk \in AllBlocks :
        ask' = [called |-> TRUE, op |-> "path_from_block", comp |-> c, blk |-> blk,
                res |-> path_from_block(c.blk, blk)]
    /\ UNCHANGED <<idxVars, implicit, tgt, src, call, pre, out>>

FindCompInBlock ==
    /\ ~ask.called
    /\ \E c \in SrcComps, allow_miss \in BOOLEAN :
        \E src_block \in SrcBlocks(c) : \E tgt_block \in TgtBlocks(src_block) :
            ask' = [called |-> TRUE, op |-> "find_comp_in_block", comp |-> c,
                    src_block |-> src_block, tgt_block |-> tgt_block,
                    allow_miss |-> allow_miss,
                    res |-> find_comp_in_block(tgt, tgt_block, src_block, c, allow_miss)]
    /\ UNCHANGED <<idxVars, implicit, tgt, src, call, pre, out>>

\* t0 as passed: a point of time or a value beside it
T0Args == Range(TimePoints) \cup {<<TimePoints[NumPoints][1] + 1>>}

FindCompInBlockAtTime ==
    /\ ~ask.called
    /\ \E full \in SrcComps, steady \in BOOLEAN, allow_miss \in BOOLEAN, at \in T0Args,
          same_model \in BOOLEAN, src_model \in BOOLEAN :
        LET c == IF steady THEN Steady(full) ELSE full
        IN  \E src_block \in SrcBlocks(c) : \E tgt_block \in TgtBlocks(src_block) :
                ask' = [called |-> TRUE, op |-> "find_comp_in_block_at_time",
                        comp |-> c, steady |-> steady, src_block |-> src_block,
                        tgt_block |-> tgt_block, allow_miss |-> allow_miss,
                        at |-> at, same_model |-> same_model, src_model |-> src_model,
                        res |-> find_comp_in_block_at_time(tgt, tgt_block, src_block, c,
                                    same_model, src_model, at, allow_miss)]
    /\ UNCHANGED <<idxVars, implicit, tgt, src, call, pre, out>>

-----------------------------------------------------------------------------
(* The specifications.  Spec runs the bulk copies on the flowsheets;        *)
(* SpecIndex runs the index algebra on one component; SpecFlags sets the    *)
(* active and fixed flags of a flowsheet; SpecClimb asks for the indexing   *)
(* of a component by the blocks around it and for its index of a set;       *)
(* SpecPaths takes the path of a component from a block and replays it in   *)
(* a target, as it is or at a point of time.                                *)

Init == TreeInit /\ IndexIdle

Next == CopyValuesAtTime \/ CopyNonTimeIndexedValues

Spec == Init /\ [][Next]_vars

NextIndex ==
    GetIndexSetExcept \/ IndexGetter \/ GetLocation \/ IsExplicitlyIndexedBy

InitIndex == TreeIdle /\ IndexInit

SpecIndex == InitIndex /\ [][NextIndex]_vars

NextFlags == DeactivateModelAt \/ FixVarsUnindexedBy

InitFlags == FlagInit /\ IndexIdle

SpecFlags == InitFlags /\ [][NextFlags]_vars

NextClimb == IsImplicitlyIndexedBy \/ GetImplicitIndexOfSet

InitClimb == TreeIdle /\ IndexIdle

SpecClimb == InitClimb /\ [][NextClimb]_vars

NextPaths == PathFromBlock \/ FindCompInBlock \/ FindCompInBlockAtTime

InitPaths == PathInit /\ IndexIdle

SpecPaths == InitPaths /\ [][NextPaths]_vars

-----------------------------------------------------------------------------
(* Properties.  A record is a VarData; its coordinates for the time set are *)
(* the values its own index and the indices of the blocks around it hold at *)
(* the offset of "time" in the product of their indexing sets.              *)

\* the offset of the first coordinate of set s in an index of c
OffsetOf(c, s) ==
    LET pos == CHOOSE i \in 1..Len(c) : c[i] = s /\ \A j \in 1..(i - 1) : c[j] # s
    IN  SumSeq([i \in 1..(pos - 1) |-> Dimen(c[i])])

HasTime(step) == "time" \in Range(IndexOf(step[1]))

TimesOf(a) ==
    {a[k][2][OffsetOf(IndexOf(a[k][1]), "time") + 1] :
        k \in {j \in 1..Len(a) : HasTime(a[j])}}

\* the record at t in place of a's time coordinate
Mirror(a, t) ==
    [k \in 1..Len(a) |->
        IF HasTime(a[k])
        THEN <<a[k][1],
               [a[k][2] EXCEPT ![OffsetOf(IndexOf(a[k][1]), "time") + 1] = t[1]]>>
        ELSE a[k]]

\* the records of the target
Records == AllVars \cap tgt.nodes

\* the objects that make up component c
Under(c) == Missing(Component(c.blk, c.name))

\* the flowsheet a call read from
SourceBefore == IF call.same THEN pre.tgt ELSE pre.src

Copied(op) == call.op = op

\* an index as Pyomo reads a key: nested tuples flattened
Flat(v) ==
    LET Coordinate(x) == x >= 0
    IN  SelectSeq(v, Coordinate)

\* the sets passed are distinct and each is a factor of comp exactly once
OnceEach ==
    /\ Len(sets) >= 1
    /\ \A i, j \in 1..Len(sets) : sets[i] = sets[j] => i = j
    /\ \A i \in 1..Len(sets) : Count(comp, sets[i]) = 1

(* C1: for a component indexed by the sets passed, each exactly once, the   *)
(* index_getter of get_index_set_except, applied to every index of          *)
(* set_except and every choice of one value per set passed, returns every   *)
(* index of the component exactly once and nothing else.                    *)
C1_GetterEnumeratesIndexSet ==
    (info.called /\ OnceEach) =>
        /\ info.raised = "none"
        /\ LET args == Range(info.set_except) \X NewVals(sets)
               got(x) == index_getter(info, x[1], x[2])
           IN  /\ \A x \in args : got(x).raised = "none"
               /\ {Flat(got(x).value) : x \in args} = index_set(comp)
               /\ \A x, y \in args : Flat(got(x).value) = Flat(got(y).value) => x = y

(* C2: for a component with a 1-dimensional set as a factor exactly once,   *)
(* the index its index_getter returns holds the value given for the set at  *)
(* the location get_location_of_coordinate_set returns for it.              *)
C2_ValueAtLocation ==
    (/\ getter.called /\ locate.called
     /\ sets = <<locate.subset>>
     /\ Dimen(locate.subset) = 1
     /\ Count(comp, locate.subset) = 1) =>
        /\ getter.res.raised = "none"
        /\ locate.res.raised = "none"
        /\ locate.res.value + 1 \in 1..Len(Flat(getter.res.value))
        /\ Flat(getter.res.value)[locate.res.value + 1] = getter.newvals[1][1]

(* C3: after a bulk copy called with copy_fixed = False, every VarData of   *)
(* the target that was fixed when the call started holds the value it had.  *)
C3_FixedKeepValue ==
    (call.op # "none" /\ ~call.copy_fixed) =>
        \A a \in Records : pre.tgt.fixed[a] => tgt.value[a] = pre.tgt.value[a]

\* a copy with copy_fixed = False that wrote a record, on a target that has
\* a fixed record at t_target whose source holds another value
C3_FixedAndWritten ==
    /\ Copied("copy_values_at_time") /\ ~call.copy_fixed /\ ~call.same
    /\ \E a \in Records :
        /\ pre.tgt.fixed[a]
        /\ call.t_target[1] \in TimesOf(a)
        /\ Mirror(a, call.t_source) \in pre.src.nodes
        /\ pre.src.value[Mirror(a, call.t_source)] # pre.tgt.value[a]
    /\ \E b \in Records : tgt.value[b] # pre.tgt.value[b]

\* the VarData the source lacks that are not indexed by time, even implicitly
UntimedMissing == {a \in Records \ pre.src.nodes : TimesOf(a) = {}}

(* C4: copy_non_time_indexed_values on a source that lacks a Var, a block   *)
(* or an index that a target Var not indexed by time needs returns          *)
(* normally, logs exactly one warning and copies every other such Var.      *)
C4_MissingSourceSkipped ==
    (Copied("copy_non_time_indexed_values") /\ UntimedMissing # {}) =>
        /\ out.raised = "none"
        /\ Len(out.warnings) = 1
        /\ \A a \in Records \ UntimedMissing :
            (TimesOf(a) = {} /\ (call.copy_fixed \/ ~pre.tgt.fixed[a])) =>
                tgt.value[a] = pre.src.value[a]

\* the components explicitly indexed by time
TimedComponents ==
    {c \in Range(declared_components(Root, "Var", TRUE))
            \cup Range(declared_components(Root, "Block", TRUE)) :
        explicitly_indexed_by(IndexOf(c.name), "time")}

(* C5: copy_values_at_time on a source that lacks one component explicitly  *)
(* indexed by time skips it with exactly one warning, raises nothing, and   *)
(* copies every other record at t_target.                                   *)
C5_MissingComponentSkipped ==
    \A c \in TimedComponents :
        (/\ Copied("copy_values_at_time") /\ ~call.same
         /\ pre.src.nodes = AllNodes \ Under(c)) =>
            /\ out.raised = "none"
            /\ out.warnings = <<c>>
            /\ \A a \in Records \ Under(c) :
                (/\ call.t_target[1] \in TimesOf(a)
                 /\ (call.copy_fixed \/ ~pre.tgt.fixed[a])) =>
                    tgt.value[a] = pre.src.value[Mirror(a, call.t_source)]

\* the objects inside the instances at t of the blocks indexed by time
InsideAt(t) ==
    {a \in AllNodes :
        \E k \in 1..(Len(a) - 1) :
            /\ HasTime(a[k])
            /\ [blk |-> SubSeq(a, 1, k - 1), name |-> a[k][1]]
                   \in Range(declared_components(Root, "Block", TRUE))
            /\ TimesOf(SubSeq(a, 1, k)) = {t[1]}}

(* C6: copy_values_at_time on a source whose block instance at t_source     *)
(* lacks a Var, a sub-block or an index that the target instance holds      *)
(* logs the failure and goes on: it does not end with an exception.         *)
C6_InsideBlockBestEffort ==
    (/\ Copied("copy_values_at_time") /\ ~call.same
     /\ \E a \in InsideAt(call.t_source) : a \notin pre.src.nodes) =>
        out.raised = "none"

(* C7: copy_values_at_time called again with the same arguments leaves the  *)
(* target as the first call left it: values, fixed flags and active flags.  *)
C7_SecondCopyChangesNothing ==
    Copied("copy_values_at_time") =>
        copy_values_at_time(tgt, src, call.same, call.t_target, call.t_source,
                            call.copy_fixed).tree = tgt

\* a copy inside one flowsheet, between two points, that changed a value
C7_CopiedWithinOneFlowsheet ==
    /\ Copied("copy_values_at_time") /\ call.same
    /\ call.t_target # call.t_source
    /\ tgt.value # pre.tgt.value

(* C8: copy_values_at_time changes no record whose time coordinate is not   *)
(* t_target, no fixed flag, no active flag, and nothing in a source that is *)
(* another flowsheet.                                                       *)
C8_WritesOnlyAtTarget ==
    Copied("copy_values_at_time") =>
        /\ \A a \in Records :
            (TimesOf(a) # {} /\ call.t_target[1] \notin TimesOf(a)) =>
                tgt.value[a] = pre.tgt.value[a]
        /\ tgt.fixed = pre.tgt.fixed
        /\ tgt.active = pre.tgt.active
        /\ ~call.same => src = pre.src

(* C9: after copy_values_at_time on a source that holds every object of the *)
(* target, every record at t_target that is not fixed, or every record when *)
(* copy_fixed, holds the value the source held at t_source in its place.    *)
C9_TargetEqualsSource ==
    (Copied("copy_values_at_time") /\ SourceBefore.nodes = AllNodes) =>
        \A a \in Records :
            (/\ call.t_target[1] \in TimesOf(a)
             /\ (call.copy_fixed \/ ~pre.tgt.fixed[a])) =>
                tgt.value[a] = SourceBefore.value[Mirror(a, call.t_source)]

(* C10: after copy_non_time_indexed_values with copy_fixed = True on a      *)
(* source that holds every object of the target, every record of every Var  *)
(* not indexed by time, even implicitly, holds the source's value.          *)
C10_UntimedEqualSource ==
    (/\ Copied("copy_non_time_indexed_values") /\ call.copy_fixed
     /\ pre.src.nodes = AllNodes) =>
        \A a \in Records : TimesOf(a) = {} => tgt.value[a] = pre.src.value[a]

(* C11: copy_non_time_indexed_values changes the value of no record that   *)
(* has a time coordinate, of its own or of a block around it; it changes no *)
(* fixed flag and no active flag, and nothing in the source.                *)
C11_UntimedCopyFrame ==
    Copied("copy_non_time_indexed_values") =>
        /\ \A a \in Records : TimesOf(a) # {} => tgt.value[a] = pre.tgt.value[a]
        /\ tgt.fixed = pre.tgt.fixed
        /\ tgt.active = pre.tgt.active
        /\ src = pre.src

\* a call that ended normally and wrote a Var of the root and one of a block
C11_RootAndNestedWritten ==
    /\ Copied("copy_non_time_indexed_values") /\ out.raised = "none"
    /\ \E a, b \in Records :
        /\ Len(a) = 1 /\ tgt.value[a] # pre.tgt.value[a]
        /\ Len(b) = 2 /\ tgt.value[b] # pre.tgt.value[b]


-----------------------------------------------------------------------------
(* The flag operations.                                                     *)

\* the Block and Constraint data objects a flowsheet holds
FlagRecords(T) == ((AllBlocks \cup AllCons) \ {Root}) \cap T.nodes

\* a is a record of an active component of T that has "time" among its own
\* indexing sets exactly once and no block around it that has
SelectedIn(T, a) ==
    LET own == IndexOf(a[Len(a)][1])
    IN  /\ Count(own, "time") = 1
        /\ \A k \in 1..(Len(a) - 1) : ~HasTime(a[k])
        /\ \A k \in 0..(Len(a) - 1) : T.active[SubSeq(a, 1, k)]
        /\ Len(own) = 0 => T.active[a]

\* the time coordinate of such a record
OwnTime(a) == <<a[Len(a)][2][OffsetOf(IndexOf(a[Len(a)][1]), "time") + 1]>>

Deactivated == call.op = "deactivate_model_at" /\ out.raised = "none"

(* C12: deactivate_model_at, called with points of time, raises nothing;    *)
(* the keys of the map it returns are the points; every record, at one of   *)
(* the points, of an active component explicitly and not implicitly indexed *)
(* by time is inactive afterwards and listed under its point, nothing else  *)
(* is listed, and every other record keeps its active flag.                 *)
C12_DeactivatesExactlyAtPoints ==
    call.op = "deactivate_model_at"
        /\ (\A i \in 1..Len(call.pts) : call.pts[i] \in Range(TimePoints)) =>
            /\ out.raised = "none"
            /\ DOMAIN out.returned = Range(call.pts)
            /\ \A a \in FlagRecords(pre.tgt) :
                IF SelectedIn(pre.tgt, a) /\ OwnTime(a) \in Range(call.pts)
                THEN /\ ~tgt.active[a]
                     /\ a \in Range(out.returned[OwnTime(a)])
                ELSE /\ tgt.active[a] = pre.tgt.active[a]
                     /\ \A pt \in Range(call.pts) : a \notin Range(out.returned[pt])
            /\ tgt.active[Root] = pre.tgt.active[Root]

\* the records fix_vars_unindexed_by is to fix on flowsheet T
ToFix(T) ==
    {a \in AllVars \cap T.nodes :
        TimesOf(a) = {} /\ ~T.fixed[a] /\ T.value[a] # None}

(* C13: fix_vars_unindexed_by fixes the records of the Vars that have no    *)
(* time coordinate, of their own or of a block around them, are not fixed   *)
(* and have a value, and returns them, each once; no other fixed flag, no   *)
(* value and no active flag changes; a second call then fixes nothing and   *)
(* returns an empty list.                                                   *)
C13_FixesUntimedWithValue ==
    call.op = "fix_vars_unindexed_by" =>
        /\ Range(out.returned) = ToFix(pre.tgt)
        /\ Len(out.returned) = Cardinality(ToFix(pre.tgt))
        /\ \A a \in AllVars : tgt.fixed[a] = (pre.tgt.fixed[a] \/ a \in ToFix(pre.tgt))
        /\ tgt.value = pre.tgt.value
        /\ tgt.active = pre.tgt.active
        /\ tgt.nodes = pre.tgt.nodes
        /\ fix_vars_unindexed_by(tgt) = [tree |-> tgt, varlist |-> <<>>]

\* a call that fixed a record, beside a record fixed before, and passed one
\* without a value and one with a time coordinate
C13_FixedSomeLeftNone ==
    /\ call.op = "fix_vars_unindexed_by"
    /\ Len(out.returned) > 0
    /\ \E a, b, c \in Records :
        /\ TimesOf(a) = {} /\ pre.tgt.fixed[a]
        /\ TimesOf(b) = {} /\ tgt.value[b] = None /\ ~tgt.fixed[b]
        /\ TimesOf(c) # {} /\ tgt.value[c] # None /\ ~tgt.fixed[c]

-----------------------------------------------------------------------------
(* The tests of indexing.                                                   *)

(* C14: for a component and a set that is among the component's own         *)
(* indexing sets exactly once, is_explicitly_indexed_by returns True,       *)
(* whatever the dimensions of the set and of the other sets; so it does for *)
(* the components declared in blocks that are themselves indexed.           *)
C14_OnceAmongFactorsIsExplicit ==
    /\ explicit.called /\ Len(sets) = 1 /\ Count(comp, sets[1]) = 1 =>
            explicit.res = Ret(TRUE)
    /\ \A i \in 1..Len(Decls) : \A s \in SetIds :
            Count(Decls[i].index, s) = 1 =>
                is_explicitly_indexed_by(Decls[i].index, <<s>>) = Ret(TRUE)

\* the call made for a set of dimension 2 that is one factor of a product
C14_PairsInProduct ==
    /\ explicit.called /\ Len(sets) = 1 /\ Count(comp, sets[1]) = 1
    /\ Len(comp) >= 2 /\ Dimen(sets[1]) = 2

(* C15: is_explicitly_indexed_by called with no set raises ValueError, for  *)
(* every component, one that is not indexed included.                       *)
C15_NoSetsRaises ==
    explicit.called /\ Len(sets) = 0 => explicit.res.raised = "ValueError"

\* s2 is another set with the elements and the dimension of s
SameValue(s, s2) == s # s2 /\ Elems(s) = Elems(s2) /\ Dimen(s) = Dimen(s2)

\* the offset get_location_of_coordinate_set reports for the set at position i
OffsetAt(c, i) == SumSeq([k \in 1..(i - 1) |-> Dimen(c[k])])

(* C16: for a component indexed by a set S and another set with the same    *)
(* elements and dimension that is not among the component's indexing sets,  *)
(* is_explicitly_indexed_by returns False, get_index_set_except raises      *)
(* ValueError, and get_location_of_coordinate_set does not return the       *)
(* location of S.                                                           *)
C16_MembershipByIdentity ==
    \A i \in 1..Len(comp) :
        Len(sets) = 1 /\ SameValue(comp[i], sets[1]) /\ sets[1] \notin Range(comp) =>
            /\ explicit.called => explicit.res = Ret(FALSE)
            /\ info.called => info.raised = "ValueError"
            /\ locate.called /\ locate.subset = sets[1] =>
                    locate.res # Ret(OffsetAt(comp, i))

\* the three calls made with the twin of a set of a product
C16_TwinOfFactorAsked ==
    /\ Len(sets) = 1 /\ sets[1] \notin Range(comp) /\ Len(comp) >= 2
    /\ \E i \in 1..Len(comp) : SameValue(comp[i], sets[1])
    /\ explicit.called /\ info.called
    /\ locate.called /\ locate.subset = sets[1]

(* C17: is_explicitly_indexed_by(comp, S) returns True when S is among the  *)
(* indexing sets of comp exactly once, and False when it is not among them  *)
(* or is among them twice or more.                                          *)
C17_ExplicitIffExactlyOnce ==
    explicit.called /\ Len(sets) = 1 =>
        explicit.res = Ret(Count(comp, sets[1]) = 1)

(* C19: get_index_set_except raises ValueError and returns nothing when one *)
(* of the sets passed is not among the indexing sets of comp, or is among   *)
(* them more than once.                                                     *)
C19_NotOnceRaises ==
    info.called /\ (\E i \in 1..Len(sets) : Count(comp, sets[i]) # 1) =>
        /\ info.raised = "ValueError"
        /\ "set_except" \notin DOMAIN info

\* the call made for a set that is twice among the indexing sets
C19_TwiceAmongFactors ==
    info.called /\ Len(sets) = 1 /\ Count(comp, sets[1]) = 2

(* C20: get_index_set_except raises ValueError when the same set is passed  *)
(* more than once.                                                          *)
C20_RepeatedSetRaises ==
    info.called /\ (\E i, j \in 1..Len(sets) : i # j /\ sets[i] = sets[j]) =>
        info.raised = "ValueError"

\* the blocks around component c, from the flowsheet down: level 0 is the
\* flowsheet, level k the block data of the k-th step of c.blk
Levels(c) == 0..Len(c.blk)

\* stop_at is the block data at level k, or the Block it is a data object of
StopsAt(c, stop_at, k) ==
    \/ stop_at.kind = "data" /\ stop_at.addr = SubSeq(c.blk, 1, k)
    \/ /\ stop_at.kind = "comp" /\ k >= 1
       /\ stop_at.blk = SubSeq(c.blk, 1, k - 1) /\ stop_at.name = c.blk[k][1]

\* the Block of level k has set s among its own indexing sets exactly once
LevelIndexedBy(c, k, s) == k >= 1 /\ Count(IndexOf(c.blk[k][1]), s) = 1

(* C18: is_implicitly_indexed_by(comp, s, stop_at) returns True exactly     *)
(* when a Block around comp, below stop_at when stop_at is one of the       *)
(* blocks around comp, or any up to the flowsheet when stop_at is None, has *)
(* s among its own indexing sets; stop_at may be the block data object or   *)
(* the indexed Block; the indexing sets of comp itself do not count.        *)
C18_ImplicitBelowStop ==
    implicit.called =>
        LET c == implicit.comp
            stop_at == implicit.stop_at
        IN  /\ implicit.res \in BOOLEAN
            /\ stop_at.kind = "none" =>
                (implicit.res <=> \E k \in Levels(c) : LevelIndexedBy(c, k, implicit.s))
            /\ \A j \in Levels(c) : StopsAt(c, stop_at, j) =>
                (implicit.res <=>
                    \E k \in Levels(c) : k > j /\ LevelIndexedBy(c, k, implicit.s))

\* the call that stopped at the Block c, indexed by time, given as the indexed
\* Block, for a component two blocks below the flowsheet
C18_StoppedAtIndexedBlock ==
    /\ implicit.called /\ ~implicit.res
    /\ implicit.stop_at.kind = "comp"
    /\ Len(implicit.comp.blk) = 2
    /\ StopsAt(implicit.comp, implicit.stop_at, 1)
    /\ LevelIndexedBy(implicit.comp, 1, implicit.s)

-----------------------------------------------------------------------------
(* The projection and the location of a set.                                *)

\* the sets passed, last first
Reversed(ss) == [i \in 1..Len(ss) |-> ss[Len(ss) + 1 - i]]

\* the indexing sets of comp that are not among the sets passed, in order
Remaining ==
    LET NotPassed(s) == \A i \in 1..Len(sets) : sets[i] # s
    IN  SelectSeq(comp, NotPassed)

(* C21: for a component indexed by the sets passed, each exactly once,      *)
(* set_except holds the indices of the product of the other indexing sets   *)
(* in their order, or the one element None when no other set is left; each  *)
(* of its indices has the dimension of the component less those of the sets *)
(* passed; the order in which the sets are passed does not change it.       *)
C21_ProjectionOfOtherFactors ==
    (info.called /\ OnceEach) =>
        /\ info.raised = "none"
        /\ Remaining = <<>> => info.set_except = << <<>> >>
        /\ Remaining # <<>> => info.set_except = ProductSeq(Remaining)
        /\ \A x \in Range(info.set_except) :
                Len(x) = dim(comp) - SumSeq([i \in 1..Len(sets) |-> Dimen(sets[i])])
        /\ LET turned == get_index_set_except(comp, Reversed(sets))
           IN  turned.raised = "none" /\ turned.set_except = info.set_except

\* two sets passed in the order opposite to theirs in the component, one set
\* of dimension 2 left
C21_TwoPassedOneLeft ==
    /\ info.called /\ OnceEach /\ Len(sets) = 2
    /\ OffsetOf(comp, sets[2]) < OffsetOf(comp, sets[1])
    /\ Len(Remaining) = 1 /\ Dimen(Remaining[1]) = 2

(* C22: get_location_of_coordinate_set raises ValueError when the set is    *)
(* not of dimension 1, is not among the sets of the product, or is among    *)
(* them more than once.                                                     *)
C22_LocationRaisesUnlessOnce ==
    locate.called /\ (Dimen(locate.subset) # 1 \/ Count(comp, locate.subset) # 1) =>
        locate.res.raised = "ValueError"

\* one element of every indexing set of comp, in order
\* the element of the factor at pos that the n-th index of the product is built from
ElementAt(c, pos, n) ==
    LET after == Len(ProductSeq(SubSeq(c, pos + 1, Len(c))))
        elems == Elems(c[pos])
    IN  elems[(((n - 1) \div after) % Len(elems)) + 1]

(* C23: for a set of dimension 1 that is among the sets of the product      *)
(* exactly once, get_location_of_coordinate_set returns the sum of the      *)
(* dimensions of the sets before it, and every index of the product holds   *)
(* at that location the element taken from the set.                         *)
C23_LocationIsOffset ==
    locate.called /\ Dimen(locate.subset) = 1 /\ Count(comp, locate.subset) = 1 =>
        LET pos == CHOOSE i \in 1..Len(comp) : comp[i] = locate.subset
        IN  /\ locate.res = Ret(SumSeq([k \in 1..(pos - 1) |-> Dimen(comp[k])]))
            /\ LET indices == ProductSeq(comp)
               IN  \A n \in 1..Len(indices) :
                        indices[n][locate.res.value + 1] = ElementAt(comp, pos, n)[1]

\* the location asked of a set that comes after a set of dimension 2
C23_AfterPairs ==
    /\ locate.called /\ Dimen(locate.subset) = 1 /\ Count(comp, locate.subset) = 1
    /\ locate.res.raised = "none" /\ locate.res.value >= 2
    /\ comp[1] = "pairs"

(* C24: get_implicit_index_of_set(record, S), S of dimension one: when the  *)
(* component of the record is explicitly indexed by S the result is the     *)
(* coordinate of S in the record's own index, whatever the blocks around it *)
(* are indexed by; otherwise it is the coordinate of S in the index of the  *)
(* single block around it indexed by S, a ValueError when more than one     *)
(* block is, and None, without an error, when none is.                      *)
Asked(op) == ask.called /\ ask.op = op
CoordinateOf(a, s) == <<IndexAt(a)[OffsetOf(IndexOf(NameOf(a)), s) + 1]>>
Carriers(a, s) ==
    {k \in 1..(Len(a) - 1) : explicitly_indexed_by(IndexOf(a[k][1]), s)}
C24_OwnIndexElseSingleAncestor ==
    (Asked("get_implicit_index_of_set") /\ Dimen(ask.wrt) = 1) =>
        LET a == ask.comp
            s == ask.wrt
            K == Carriers(a, s)
        IN  IF explicitly_indexed_by(IndexOf(NameOf(a)), s)
            THEN ask.res = Ret(CoordinateOf(a, s))
            ELSE IF Cardinality(K) > 1 THEN ask.res = Raise("ValueError")
            ELSE IF K = {} THEN ask.res = Ret(<<>>)
            ELSE ask.res = Ret(CoordinateOf(SubSeq(a, 1, CHOOSE k \in K : TRUE), s))

\* the same, for the records whose own component and blocks do not both carry S
C24_HoldsWhereOnlyOneCarries ==
    (Asked("get_implicit_index_of_set") /\ Dimen(ask.wrt) = 1
        /\ ~(explicitly_indexed_by(IndexOf(NameOf(ask.comp)), ask.wrt)
                /\ Carriers(ask.comp, ask.wrt) # {})) =>
        C24_OwnIndexElseSingleAncestor

(* C25: path_from_block(comp, blk) with blk not among the blocks around     *)
(* comp returns a result that is marked as partial: it is not a plain list  *)
(* of (local_name, index) steps of blocks, as a complete path is.           *)
Around(c) == {SubSeq(c.blk, 1, k) : k \in 0..Len(c.blk)}
StepOf(b) == <<NameOf(b), IndexAt(b)>>
PlainRoute(route) == \A k \in 1..Len(route) : \E b \in AllBlocks : route[k] = StepOf(b)
C25_PartialIsMarked ==
    (Asked("path_from_block") /\ ask.blk \notin Around(ask.comp)) => ~PlainRoute(ask.res)

\* what is returned then: the steps of every block around comp, the model's first
C25_ReturnsStepsFromTheTop ==
    (Asked("path_from_block") /\ ask.blk \notin Around(ask.comp)) =>
        ask.res = <<StepOf(Root)>> \o ask.comp.blk

(* C26: find_comp_in_block(tgt_block, src_block, src_comp, allow_miss):     *)
(* when a step of the path, by the name or by the index of a block, the     *)
(* name of the component or its index is not in the target, the result is   *)
(* None with allow_miss and an AttributeError or a KeyError without; when   *)
(* all of them are there, the result is the component reached by these      *)
(* names and indices; the flowsheets are left as they were.                 *)
Route == path_from_block(ask.comp.blk, ask.src_block)
Reach(k) == ask.tgt_block \o SubSeq(Route, 1, k)
NamedIn(T, blk, name) == \E a \in T.nodes : Len(a) > 0 /\ parent_block(a) = blk /\ NameOf(a) = name
Reached(index) == Append(Reach(Len(Route)), <<ask.comp.name, index>>)
StepsExist == \A k \in 1..Len(Route) : Reach(k) \in tgt.nodes
AllExist ==
    /\ StepsExist
    /\ NamedIn(tgt, Reach(Len(Route)), ask.comp.name)
    /\ ask.comp.has_index => Reached(ask.comp.index) \in tgt.nodes
C26_MissIsNoneOrRaises ==
    Asked("find_comp_in_block") =>
        /\ (~AllExist /\ ask.allow_miss) => ask.res = Ret(NoComp)
        /\ (~AllExist /\ ~ask.allow_miss) => ask.res.raised \in {"AttributeError", "KeyError"}
        /\ AllExist =>
                ask.res = Ret(IF ask.comp.has_index THEN CompData(Reached(ask.comp.index))
                              ELSE IndexedComp(Reach(Len(Route)), ask.comp.name))
        /\ tgt = pre.tgt /\ src = pre.src

\* a block on the way is in the target by its name and not by its index
C26_MissedIndexOnTheWay ==
    /\ Asked("find_comp_in_block") /\ ask.allow_miss /\ ask.res = Ret(NoComp)
    /\ ask.src_block \in Around(ask.comp)
    /\ \E k \in 1..Len(Route) :
            /\ \A j \in 1..(k - 1) : Reach(j) \in tgt.nodes
            /\ NamedIn(tgt, Reach(k - 1), Route[k][1])
            /\ Reach(k) \notin tgt.nodes

(* C29: for a block and a component below it in the same flowsheet,         *)
(* path_from_block(comp, blk) is the (local_name, index) steps of the       *)
(* blocks between blk and comp from the top down, blk left out, empty when  *)
(* blk holds comp; find_comp_in_block(blk, blk, comp) returns comp.         *)
InTree(T, c) ==
    /\ c.blk \in T.nodes
    /\ IF c.has_index THEN Append(c.blk, <<c.name, c.index>>) \in T.nodes
       ELSE NamedIn(T, c.blk, c.name)
C29_PathReplaysToItself ==
    /\ (Asked("path_from_block") /\ ask.blk \in Around(ask.comp)) =>
            ask.res = SubSeq(ask.comp.blk, Len(ask.blk) + 1, Len(ask.comp.blk))
    /\ (Asked("find_comp_in_block") /\ ask.src_block \in Around(ask.comp)
            /\ ask.tgt_block = ask.src_block /\ InTree(tgt, ask.comp)) =>
            ask.res = Ret(ask.comp)

\* a component two blocks below the model, found from the model
C29_FoundTwoBlocksBelow ==
    /\ Asked("find_comp_in_block") /\ InTree(tgt, ask.comp)
    /\ ask.src_block = Root /\ ask.tgt_block = Root
    /\ Len(ask.comp.blk) = 2 /\ ask.comp.has_index
    /\ ask.res = Ret(ask.comp)

(* C27: when find_comp_in_block_at_time returns a component, it is the one  *)
(* reached in the target by the names of the source path and by its         *)
(* indices, in which, for every block on the way and for the component      *)
(* itself whose target is explicitly indexed by time, the coordinate at the *)
(* location of time is t0 and every other coordinate is the source's; an    *)
(* index of a target not indexed by time is the source's; when no target on *)
(* the path is indexed by time the call ends as find_comp_in_block does.    *)
Found(op) == Asked(op) /\ ask.res.raised = "none" /\ ask.res.value # NoComp
Substituted(name, index, source) ==
    IF HasTime(<<name, index>>)
    THEN LET loc == OffsetOf(IndexOf(name), "time") + 1
         IN  /\ Len(index) = dim(IndexOf(name))
             /\ index[loc] = ask.at[1]
             /\ \A j \in 1..Len(index) : j # loc => j <= Len(source) /\ index[j] = source[j]
    ELSE index = source
TimeOnPath ==
    \/ HasTime(<<ask.comp.name, ask.comp.index>>)
    \/ \E k \in 1..Len(Route) : HasTime(Route[k])
C27_TimeCoordinateIsT0 ==
    /\ Found("find_comp_in_block_at_time") =>
            LET found == ask.res.value
                n == Len(ask.tgt_block)
            IN  /\ InTree(tgt, found)
                /\ SubSeq(found.blk, 1, n) = ask.tgt_block
                /\ Len(found.blk) = n + Len(Route)
                /\ \A k \in 1..Len(Route) :
                        /\ found.blk[n + k][1] = Route[k][1]
                        /\ Substituted(Route[k][1], found.blk[n + k][2], Route[k][2])
                /\ found.name = ask.comp.name
                /\ found.has_index = ask.comp.has_index
                /\ found.has_index =>
                        Substituted(found.name, found.index, ask.comp.index)
    /\ (Asked("find_comp_in_block_at_time") /\ ask.res.msg = "none" /\ ~TimeOnPath) =>
            LET plain == find_comp_in_block(tgt, ask.tgt_block, ask.src_block, ask.comp,
                                            ask.allow_miss)
            IN  ask.res.raised = plain.raised /\ ask.res.value = plain.value

\* the Constraint g, indexed by pairs and time, found at another point of time
C27_AfterPairsAtAnotherTime ==
    /\ Found("find_comp_in_block_at_time") /\ ~ask.steady
    /\ ask.comp.name = "g" /\ ask.comp.has_index
    /\ ask.comp.index[3] # ask.at[1]
    /\ ask.res.value.index = SubSeq(ask.comp.index, 1, 2) \o ask.at

(* C28: find_comp_in_block_at_time raises, whatever allow_miss and the      *)
(* target are, when t0 is not in time, when time is not of the model of     *)
(* tgt_block, or when src_block and src_comp are not of one model; the      *)
(* exceptions of the three cases differ by their type or by their message.  *)
Violated ==
    (IF ask.at \notin Range(TimePoints) THEN {"t0"} ELSE {})
        \cup (IF ~ask.same_model THEN {"time"} ELSE {})
        \cup (IF ~ask.src_model THEN {"src"} ELSE {})
Raised == <<ask.res.raised, ask.res.msg>>
C28_PreconditionsRaise ==
    Asked("find_comp_in_block_at_time") =>
        /\ Violated # {} => ask.res.raised # "none" /\ ask.res.msg # "none"
        /\ Violated = {} => ask.res.msg = "none"
        /\ \A other \in [at : T0Args, same_model : BOOLEAN, src_model : BOOLEAN] :
            LET r == find_comp_in_block_at_time(tgt, ask.tgt_block, ask.src_block,
                        ask.comp, other.same_model, other.src_model, other.at,
                        ask.allow_miss)
                V == (IF other.at \notin Range(TimePoints) THEN {"t0"} ELSE {})
                        \cup (IF ~other.same_model THEN {"time"} ELSE {})
                        \cup (IF ~other.src_model THEN {"src"} ELSE {})
            IN  (Cardinality(Violated) = 1 /\ Cardinality(V) = 1 /\ V # Violated)
                    => <<r.raised, r.msg>> # Raised

\* src_comp of another model than src_block, on a target that lacks a block of the path
C28_RaisedWhereAMissWouldBe ==
    /\ Asked("find_comp_in_block_at_time") /\ ask.allow_miss
    /\ Violated = {"src"} /\ ask.res.raised = "ValueError"
    /\ ~ask.steady /\ ask.src_block = Root /\ ask.tgt_block = Root
    /\ \E k \in 1..Len(Route) : Mirror(SubSeq(Route, 1, k), ask.at) \notin tgt.nodes

(* C30: with t0 in time, time of the model of tgt_block, src_block and      *)
(* src_comp of one model, and allow_miss, find_comp_in_block_at_time        *)
(* returns a component or None and raises nothing, also when a target on    *)
(* the path is indexed by time and another set and the source index has     *)
(* fewer coordinates.                                                       *)
C30_NothingEscapesWithAllowMiss ==
    (Asked("find_comp_in_block_at_time") /\ Violated = {} /\ ask.allow_miss) =>
        ask.res.raised = "none"

\* the same, for the sources that declare time as the target does
C30_HoldsForSourcesWithTime ==
    (Asked("find_comp_in_block_at_time") /\ Violated = {} /\ ask.allow_miss
        /\ ~ask.steady) => ask.res.raised = "none"


=============================================================================
